---- MODULE Spec2Model ----
(***************************************************************************)
(* Model of the text editor's editing core (Editor, Memento,               *)
(* HistoryManager, TypeCommand, DeleteCommand, the diff reconciler and the *)
(* tab handlers of App.tsx) and of the RTF codec of the main process.      *)
(*                                                                         *)
(* A string is a sequence of one-character strings.  Every document id     *)
(* owns one Editor and one HistoryManager object; the objects outlive the  *)
(* tab (a pending timer keeps a reference to them), so their state is      *)
(* kept per id, open or closed.                                            *)
(***************************************************************************)
EXTENDS Integers, Sequences, FiniteSets, TLC

\* ---------------------------------------------------------------- bounds
MaxLen == 1
MaxDiffLen == 3
MaxSteps == 6
MaxDocs == 2
MaxCount == 4
MaxFontSize == 20
MaxFileSteps == 4

Alphabet == {"a", "b"}

DocIds == 1..MaxDocs

\* All strings over the alphabet of length at most n.
StringsUpTo(n) == UNION {[1..k -> Alphabet] : k \in 0..n}

NewValues == StringsUpTo(MaxLen)

\* ------------------------------------------------------- string helpers
\* String.prototype.startsWith
StartsWith(s, p) == Len(p) <= Len(s) /\ SubSeq(s, 1, Len(p)) = p

\* String.prototype.slice(0, n) for n >= 0
SliceTo(s, n) == SubSeq(s, 1, IF n < Len(s) THEN n ELSE Len(s))

\* String.prototype.slice(n) for n >= 0
SliceFrom(s, n) == SubSeq(s, n + 1, Len(s))

Max(a, b) == IF a >= b THEN a ELSE b

Last(s) == s[Len(s)]

\* ------------------------------------------------------------ variables
VARIABLES
  docs,          \* App state `docs`: the open documents' ids, in tab order
  activeId,      \* App state `activeId`
  nextId,        \* the next id genId() hands out
  isDirty,       \* Doc.isDirty, per id
  content,       \* Editor.content, per id
  undoStack,     \* HistoryManager.undoStack, per id
  redoStack,     \* HistoryManager.redoStack, per id
  stateTimeout,  \* HistoryManager.stateTimeout, per id (0 is null)
  timers,        \* the event loop's pending timeouts of each HistoryManager
  lastOp,        \* history: the handler that ran last, with its inputs
  burst,         \* history: the saveState calls since the last capture, per id
  undoMark,      \* history: the last undo not yet followed by an edit or redo
  steps,         \* history: the number of handlers run so far
  filePath,      \* Doc.filePath, per id (the empty string is undefined)
  name,          \* Doc.name, per id
  recovery,      \* the ids that have a record in the recovery directory
  recent,        \* the recent-files list (recent.json)
  inFlight,      \* the save and saveAs calls awaiting the main process
  savedIds,      \* history: the ids a save or saveAs has succeeded for
  autosave,      \* the autosave effect's timeout is pending
  enc,           \* the text and style a run of the codec started from
  dec            \* rtfToText's local state

fileVars == <<filePath, name, recovery, recent, inFlight, savedIds>>

editorVars == <<docs, activeId, nextId, isDirty, content, undoStack, redoStack,
                stateTimeout, timers, lastOp, burst, undoMark, steps, fileVars,
                autosave>>

vars == <<editorVars, enc, dec>>

\* ------------------------------------------------------ Memento, Editor
\* new Memento(state)
Memento(state) == [state |-> state]

\* Memento.getState
getState(m) == m.state

\* The objects of one document: its Editor and HistoryManager fields and
\* the pending timeouts that HistoryManager has armed.
Obj(d) == [content |-> content[d], undoStack |-> undoStack[d],
           redoStack |-> redoStack[d], stateTimeout |-> stateTimeout[d],
           timers |-> timers[d]]

\* new Editor() with new HistoryManager()
NewObj == [content |-> <<>>, undoStack |-> <<>>, redoStack |-> <<>>,
           stateTimeout |-> 0, timers |-> {}]

\* Editor.getText
getText(o) == o.content

\* Editor.setText
setText(o, nextText) == [o EXCEPT !.content = nextText]

\* Editor.createMemento
createMemento(o) == Memento(o.content)

\* Editor.restore
restore(o, m) == [o EXCEPT !.content = getState(m)]

\* ------------------------------------------------------- HistoryManager
\* setTimeout's return value: a handle no pending or remembered timer has.
FreshTimer(o) ==
  CHOOSE t \in 1..(Cardinality(o.timers) + 2) :
    /\ t \notin o.timers \cup {o.stateTimeout}
    /\ \A u \in 1..(t - 1) : u \in o.timers \cup {o.stateTimeout}

\* saveState without its clearTimeout: every call leaves one more timer.
saveStateNoClear(o) ==
  [o EXCEPT !.timers = o.timers \cup {FreshTimer(o)},
            !.stateTimeout = FreshTimer(o)]

\* saveState that arms a timer without remembering its handle, so that the
\* next call has nothing to cancel.
saveStateForgetsHandle(o) ==
  [o EXCEPT !.timers = o.timers \cup {FreshTimer(o)}]

\* HistoryManager.saveState: cancel the remembered timeout, arm a new one.
saveState(o) ==
  LET cleared == IF o.stateTimeout # 0 THEN o.timers \ {o.stateTimeout}
                 ELSE o.timers
  IN [o EXCEPT !.timers = cleared \cup {FreshTimer(o)},
               !.stateTimeout = FreshTimer(o)]

\* The callback without its second statement: the redo stack is kept.
stateTimeoutCallbackKeepsRedo(o) ==
  [o EXCEPT !.undoStack = Append(o.undoStack, createMemento(o))]

\* The callback saveState hands to setTimeout; it reads the editor when it runs.
stateTimeoutCallback(o) ==
  [o EXCEPT !.undoStack = Append(o.undoStack, createMemento(o)),
            !.redoStack = <<>>]

\* canUndo answering for the redo stack.
canUndoReadsRedo(o) == Len(o.redoStack) > 0

\* HistoryManager.canUndo
canUndo(o) == Len(o.undoStack) > 0

\* HistoryManager.canRedo
canRedo(o) == Len(o.redoStack) > 0

\* undo that remembers the restored snapshot, not the current text, for redo.
undoPushesPrevious(o) ==
  IF ~canUndo(o) THEN o
  ELSE LET previous == Last(o.undoStack)
           popped == [o EXCEPT !.undoStack = SubSeq(o.undoStack, 1, Len(o.undoStack) - 1),
                               !.redoStack = Append(o.redoStack, previous)]
       IN restore(popped, previous)

\* undo without its guard: with nothing to pop, the current state still
\* goes onto the redo stack.
undoWithoutGuard(o) ==
  IF ~canUndo(o) THEN [o EXCEPT !.redoStack = Append(o.redoStack, createMemento(o))]
  ELSE LET current == createMemento(o)
           previous == Last(o.undoStack)
           popped == [o EXCEPT !.undoStack = SubSeq(o.undoStack, 1, Len(o.undoStack) - 1),
                               !.redoStack = Append(o.redoStack, current)]
       IN restore(popped, previous)

\* HistoryManager.undo
undo(o) ==
  IF ~canUndo(o) THEN o
  ELSE LET current == createMemento(o)
           previous == Last(o.undoStack)
           popped == [o EXCEPT !.undoStack = SubSeq(o.undoStack, 1, Len(o.undoStack) - 1),
                               !.redoStack = Append(o.redoStack, current)]
       IN restore(popped, previous)

\* redo that reads the top of the redo stack without popping it.
redoWithoutPop(o) ==
  IF ~canRedo(o) THEN o
  ELSE LET current == createMemento(o)
           next == Last(o.redoStack)
           pushed == [o EXCEPT !.undoStack = Append(o.undoStack, current)]
       IN restore(pushed, next)

\* redo that does not keep the current text for a later undo.
redoDropsCurrent(o) ==
  IF ~canRedo(o) THEN o
  ELSE LET next == Last(o.redoStack)
           popped == [o EXCEPT !.redoStack = SubSeq(o.redoStack, 1, Len(o.redoStack) - 1)]
       IN restore(popped, next)

\* HistoryManager.redo
redo(o) ==
  IF ~canRedo(o) THEN o
  ELSE LET current == createMemento(o)
           next == Last(o.redoStack)
           popped == [o EXCEPT !.redoStack = SubSeq(o.redoStack, 1, Len(o.redoStack) - 1),
                               !.undoStack = Append(o.undoStack, current)]
       IN restore(popped, next)

\* ------------------------------------------------------------- commands
\* TypeCommand.execute that puts the text in front of the content.
TypeCommandExecutePrepends(o, textToAdd) ==
  LET saved == saveState(o)
  IN setText(saved, textToAdd \o getText(saved))

\* TypeCommand.execute
TypeCommandExecute(o, textToAdd) ==
  LET saved == saveState(o)
  IN setText(saved, getText(saved) \o textToAdd)

\* DeleteCommand.execute without Math.max: a negative end makes slice count
\* from the end of the string.
DeleteCommandExecuteUnclamped(o, count) ==
  LET saved == saveState(o)
      current == getText(saved)
      end == Len(current) - count
      next == SliceTo(current, IF end < 0 THEN Max(0, Len(current) + end) ELSE end)
  IN setText(saved, next)

\* DeleteCommand.execute
DeleteCommandExecute(o, count) ==
  LET saved == saveState(o)
      current == getText(saved)
      next == SliceTo(current, Max(0, Len(current) - count))
  IN setText(saved, next)

Insert(text) == [type |-> "Insert", text |-> text, count |-> 0]
Delete(count) == [type |-> "Delete", text |-> <<>>, count |-> count]

\* Command.execute, dispatched on the command's class
Execute(o, c) ==
  IF c.type = "Insert" THEN TypeCommandExecute(o, c.text)
  ELSE DeleteCommandExecute(o, c.count)

\* ------------------------------------------------------ diff reconciler
\* applyDiffEdit comparing lengths only, without startsWith.
DiffCommandsByLength(currentValue, newValue) ==
  IF Len(newValue) >= Len(currentValue)
  THEN LET toAdd == SliceFrom(newValue, Len(currentValue))
       IN IF Len(toAdd) > 0 THEN <<Insert(toAdd)>> ELSE <<>>
  ELSE <<Delete(Len(currentValue) - Len(newValue))>>

\* The commands applyDiffEdit constructs for the current and the new value.
DiffCommands(currentValue, newValue) ==
  IF Len(newValue) >= Len(currentValue) /\ StartsWith(newValue, currentValue)
  THEN LET toAdd == SliceFrom(newValue, Len(currentValue))
       IN IF Len(toAdd) > 0 THEN <<Insert(toAdd)>> ELSE <<>>
  ELSE IF Len(newValue) < Len(currentValue) /\ StartsWith(currentValue, newValue)
  THEN LET delCount == Len(currentValue) - Len(newValue)
       IN IF delCount > 0 THEN <<Delete(delCount)>> ELSE <<>>
  ELSE (IF Len(currentValue) > 0 THEN <<Delete(Len(currentValue))>> ELSE <<>>)
       \o (IF Len(newValue) > 0 THEN <<Insert(newValue)>> ELSE <<>>)

RECURSIVE ExecuteAll(_, _)
\* The commands are executed one after the other, each on the result of the last.
ExecuteAll(o, cmds) ==
  IF cmds = <<>> THEN o
  ELSE ExecuteAll(Execute(o, cmds[1]), SubSeq(cmds, 2, Len(cmds)))

\* applyDiffEdit's effect on the active document's objects
applyDiffEdit(o, newValue) == ExecuteAll(o, DiffCommands(getText(o), newValue))

\* ================================================================ codec
\* Characters are one-character strings; a character with no printable
\* form is written "U+hhhh".
\* String.fromCharCode(code) for the codes 0..255 (index code + 1)
CharOfCode == <<
  "U+0000", "U+0001", "U+0002", "U+0003", "U+0004", "U+0005", "U+0006",
  "U+0007", "U+0008", "\t", "\n", "U+000B", "\f", "\r", "U+000E", "U+000F",
  "U+0010", "U+0011", "U+0012", "U+0013", "U+0014", "U+0015", "U+0016",
  "U+0017", "U+0018", "U+0019", "U+001A", "U+001B", "U+001C", "U+001D",
  "U+001E", "U+001F", " ", "!", "\"", "#", "$", "%", "&", "'", "(", ")",
  "*", "+", ",", "-", ".", "/", "0", "1", "2", "3", "4", "5", "6", "7",
  "8", "9", ":", ";", "<", "=", ">", "?", "@", "A", "B", "C", "D", "E",
  "F", "G", "H", "I", "J", "K", "L", "M", "N", "O", "P", "Q", "R", "S",
  "T", "U", "V", "W", "X", "Y", "Z", "[", "\\", "]", "^", "_", "U+0060", "a",
  "b", "c", "d", "e", "f", "g", "h", "i", "j", "k", "l", "m", "n", "o",
  "p", "q", "r", "s", "t", "u", "v", "w", "x", "y", "z", "{", "|", "}",
  "~", "U+007F", "U+0080", "U+0081", "U+0082", "U+0083", "U+0084",
  "U+0085", "U+0086", "U+0087", "U+0088", "U+0089", "U+008A", "U+008B",
  "U+008C", "U+008D", "U+008E", "U+008F", "U+0090", "U+0091", "U+0092",
  "U+0093", "U+0094", "U+0095", "U+0096", "U+0097", "U+0098", "U+0099",
  "U+009A", "U+009B", "U+009C", "U+009D", "U+009E", "U+009F", "U+00A0",
  "U+00A1", "U+00A2", "U+00A3", "U+00A4", "U+00A5", "U+00A6", "U+00A7",
  "U+00A8", "U+00A9", "U+00AA", "U+00AB", "U+00AC", "U+00AD", "U+00AE",
  "U+00AF", "U+00B0", "U+00B1", "U+00B2", "U+00B3", "U+00B4", "U+00B5",
  "U+00B6", "U+00B7", "U+00B8", "U+00B9", "U+00BA", "U+00BB", "U+00BC",
  "U+00BD", "U+00BE", "U+00BF", "U+00C0", "U+00C1", "U+00C2", "U+00C3",
  "U+00C4", "U+00C5", "U+00C6", "U+00C7", "U+00C8", "U+00C9", "U+00CA",
  "U+00CB", "U+00CC", "U+00CD", "U+00CE", "U+00CF", "U+00D0", "U+00D1",
  "U+00D2", "U+00D3", "U+00D4", "U+00D5", "U+00D6", "U+00D7", "U+00D8",
  "U+00D9", "U+00DA", "U+00DB", "U+00DC", "U+00DD", "U+00DE", "U+00DF",
  "U+00E0", "U+00E1", "U+00E2", "U+00E3", "U+00E4", "U+00E5", "U+00E6",
  "U+00E7", "U+00E8", "U+00E9", "U+00EA", "U+00EB", "U+00EC", "U+00ED",
  "U+00EE", "U+00EF", "U+00F0", "U+00F1", "U+00F2", "U+00F3", "U+00F4",
  "U+00F5", "U+00F6", "U+00F7", "U+00F8", "U+00F9", "U+00FA", "U+00FB",
  "U+00FC", "U+00FD", "U+00FE", "U+00FF"
>>

UpperCase == <<"A", "B", "C", "D", "E", "F", "G", "H", "I", "J", "K", "L", "M", "N", "O", "P", "Q", "R", "S", "T", "U", "V", "W", "X", "Y", "Z">>

LowerCase == <<"a", "b", "c", "d", "e", "f", "g", "h", "i", "j", "k", "l", "m", "n", "o", "p", "q", "r", "s", "t", "u", "v", "w", "x", "y", "z">>

DecDigits == <<"0", "1", "2", "3", "4", "5", "6", "7", "8", "9">>

HexDigitsLower == <<"0", "1", "2", "3", "4", "5", "6", "7", "8", "9", "a", "b", "c", "d", "e", "f">>

HexDigitsUpper == <<"0", "1", "2", "3", "4", "5", "6", "7", "8", "9", "A", "B", "C", "D", "E", "F">>


\* ------------------------------------------------------ string helpers
\* String.prototype.toLowerCase on one character
LowerChar(c) ==
  IF \E k \in 1..26 : c = UpperCase[k]
  THEN LowerCase[CHOOSE k \in 1..26 : c = UpperCase[k]]
  ELSE c

\* String.prototype.toLowerCase
ToLowerCase(s) == [k \in 1..Len(s) |-> LowerChar(s[k])]

DigitVal(c) == (CHOOSE k \in 1..10 : c = DecDigits[k]) - 1

HexVal(c) ==
  (CHOOSE k \in 1..16 : c = HexDigitsLower[k] \/ c = HexDigitsUpper[k]) - 1

\* Number(digits) for a string of decimal digits
DigitsToNat(s) ==
  LET F[k \in 0..Len(s)] == IF k = 0 THEN 0 ELSE F[k - 1] * 10 + DigitVal(s[k])
  IN F[Len(s)]

RECURSIVE NatToStr(_)
\* String(n) for an integer n >= 0
NatToStr(n) ==
  IF n < 10 THEN <<DecDigits[n + 1]>>
  ELSE Append(NatToStr(n \div 10), DecDigits[(n % 10) + 1])

\* String(n), as a template literal prints an integer
IntToStr(n) == IF n < 0 THEN <<"-">> \o NatToStr(0 - n) ELSE NatToStr(n)

\* Whether pat occurs in s at position p (1-based).
MatchAt(s, p, pat) ==
  /\ p >= 1
  /\ p + Len(pat) - 1 <= Len(s)
  /\ SubSeq(s, p, p + Len(pat) - 1) = pat

Letters == {UpperCase[k] : k \in 1..26} \cup {LowerCase[k] : k \in 1..26}

Digits == {DecDigits[k] : k \in 1..10}

HexDigits == {HexDigitsLower[k] : k \in 1..16} \cup {HexDigitsUpper[k] : k \in 1..16}

\* The characters the regular expression class \s and String.trim accept
\* among the codes 0..255.
Spaces == {" ", "\t", "\n", "\r", "\f", "U+000B", "U+00A0"}

\* The class [^}]
NotCloseBrace == {CharOfCode[k] : k \in 1..256} \ {"}"}

\* The end (exclusive) of the longest run of characters of the class cls
\* that starts at p.
RunEnd(s, p, cls) ==
  IF \E q \in p..Len(s) : s[q] \notin cls
  THEN CHOOSE q \in p..Len(s) : s[q] \notin cls /\ \A r \in p..(q - 1) : s[r] \in cls
  ELSE Max(p, Len(s) + 1)

\* String.prototype.slice(a, b) for 0 <= a, 0 <= b
Slice(s, a, b) == SubSeq(s, a + 1, IF b < Len(s) THEN b ELSE Len(s))

\* String.prototype.replace(c, '') for a one-character string c: the first
\* occurrence only.
RemoveFirst(s, c) ==
  IF \E k \in 1..Len(s) : s[k] = c
  THEN LET k == CHOOSE k \in 1..Len(s) : s[k] = c /\ \A j \in 1..(k - 1) : s[j] # c
       IN SubSeq(s, 1, k - 1) \o SubSeq(s, k + 1, Len(s))
  ELSE s

\* String.prototype.replace(/c/g, r) for a one-character pattern c
ReplaceChar(s, c, r) ==
  LET F[k \in 0..Len(s)] ==
        IF k = 0 THEN <<>>
        ELSE F[k - 1] \o (IF s[k] = c THEN r ELSE <<s[k]>>)
  IN F[Len(s)]

\* ------------------------------------------------------------- encoder
\* parseInt(s, 16) || 0: leading white space, a sign, an optional 0x, then
\* the longest run of hex digits; no digit at all is NaN, which || turns to 0.
ParseInt16Or0(s) ==
  LET p0 == RunEnd(s, 1, Spaces)
      neg == p0 <= Len(s) /\ s[p0] = "-"
      p1 == IF p0 <= Len(s) /\ s[p0] \in {"-", "+"} THEN p0 + 1 ELSE p0
      p2 == IF MatchAt(s, p1, <<"0", "x">>) \/ MatchAt(s, p1, <<"0", "X">>)
            THEN p1 + 2 ELSE p1
      p3 == RunEnd(s, p2, HexDigits)
      F[k \in (p2 - 1)..(p3 - 1)] ==
        IF k = p2 - 1 THEN 0 ELSE F[k - 1] * 16 + HexVal(s[k])
      v == F[p3 - 1]
  IN IF neg THEN 0 - v ELSE v

\* a / b cut off instead of rounded
RoundDivTruncates(a, b) == a \div b

\* Math.round(a / b) for a >= 0, b > 0
RoundDiv(a, b) == (2 * a + b) \div (2 * b)

\* escapeText's last replace: /\r?\n/g -> '\\par\n'
ParBreaks(s) ==
  LET F[k \in 0..Len(s)] ==
        IF k = 0 THEN <<>>
        ELSE IF s[k] = "\n" THEN F[k - 1] \o <<"\\", "p", "a", "r", "\n">>
        ELSE IF s[k] = "\r" /\ k < Len(s) /\ s[k + 1] = "\n" THEN F[k - 1]
        ELSE Append(F[k - 1], s[k])
  IN F[Len(s)]

\* An escapeText that leaves the closing brace as it is.
escapeTextKeepsCloseBrace(s) ==
  ParBreaks(ReplaceChar(ReplaceChar(s, "\\", <<"\\", "\\">>), "{", <<"\\", "{">>))

\* toRtf's escapeText
escapeText(s) ==
  ParBreaks(ReplaceChar(ReplaceChar(ReplaceChar(s, "\\", <<"\\", "\\">>), "{", <<"\\", "{">>),
                        "}", <<"\\", "}">>))

\* The style a document is saved with: Doc.fontFamily, fontSize, fontColor.
Meta(fontFamily, fontSize, fontColor) ==
  [fontFamily |-> fontFamily, fontSize |-> fontSize, fontColor |-> fontColor]

\* toRtf(plain, meta)
toRtf(plain, meta) ==
  LET sizeHalfPoints == RoundDiv(meta.fontSize * 72, 96) * 2
      hex == RemoveFirst(meta.fontColor, "#")
      r == ParseInt16Or0(Slice(hex, 0, 2))
      g == ParseInt16Or0(Slice(hex, 2, 4))
      b == ParseInt16Or0(Slice(hex, 4, 6))
      header == <<"{", "\\", "r", "t", "f", "1", "\\", "a", "n", "s", "i", "\\", "d", "e", "f", "f", "0", "{", "\\", "f", "o", "n", "t", "t", "b", "l", "{", "\\", "f", "0", " ">> \o meta.fontFamily
                \o <<";", "}", "}", "{", "\\", "c", "o", "l", "o", "r", "t", "b", "l", ";", "\\", "r", "e", "d">> \o IntToStr(r)
                \o <<"\\", "g", "r", "e", "e", "n">> \o IntToStr(g)
                \o <<"\\", "b", "l", "u", "e">> \o IntToStr(b) \o <<";", "}", "\n">>
      body == <<"\\", "f", "0", "\\", "f", "s">> \o IntToStr(sizeHalfPoints) \o <<"\\", "c", "f", "1", " ">>
              \o escapeText(plain) \o <<"\n">>
  IN header \o body \o <<"}">>

\* ------------------------------------------------------------- decoder
\* String.prototype.split(';')
SplitSemi(s) ==
  LET F[k \in 0..Len(s)] ==
        IF k = 0 THEN <<<<>>>>
        ELSE LET parts == F[k - 1]
             IN IF s[k] = ";" THEN Append(parts, <<>>)
                ELSE [parts EXCEPT ![Len(parts)] = Append(@, s[k])]
  IN F[Len(s)]

\* e.trim().length > 0
NonBlank(e) == \E k \in 1..Len(e) : e[k] \notin Spaces

\* Array.prototype.filter((e) => e.trim().length > 0)
NonBlankEntries(seq) ==
  LET F[k \in 0..Len(seq)] ==
        IF k = 0 THEN <<>>
        ELSE IF NonBlank(seq[k]) THEN Append(F[k - 1], seq[k]) ELSE F[k - 1]
  IN F[Len(seq)]

\* Math.min(255, Number(/\\name(\d+)/.exec(entry)?.[1] || 0))
Component(entry, key) ==
  LET Hit(p) == MatchAt(entry, p, key) /\ p + Len(key) <= Len(entry)
                /\ entry[p + Len(key)] \in Digits
  IN IF \E p \in 1..Len(entry) : Hit(p)
     THEN LET p == CHOOSE p \in 1..Len(entry) :
                     Hit(p) /\ \A q \in 1..(p - 1) : ~Hit(q)
              from == p + Len(key)
              n == DigitsToNat(SubSeq(entry, from, RunEnd(entry, from, Digits) - 1))
          IN IF n > 255 THEN 255 ELSE n
     ELSE 0

\* n.toString(16).padStart(2, '0') for 0 <= n <= 255
Hex2(n) == <<HexDigitsLower[(n \div 16) + 1], HexDigitsLower[(n % 16) + 1]>>

\* The '#rrggbb' string of one color table entry
EntryColor(entry) ==
  <<"#">> \o Hex2(Component(entry, <<"\\", "r", "e", "d">>))
          \o Hex2(Component(entry, <<"\\", "g", "r", "e", "e", "n">>))
          \o Hex2(Component(entry, <<"\\", "b", "l", "u", "e">>))

ColorTblOpen == <<"{", "\\", "c", "o", "l", "o", "r", "t", "b", "l", ";">>

\* rtfToText's color table: '#000000', then one color per non-blank entry of
\* the first match of /\{\\colortbl;([^}]*)\}/
ColorTable(rtf) ==
  LET Hit(p) == MatchAt(rtf, p, ColorTblOpen)
                /\ \E q \in (p + Len(ColorTblOpen))..Len(rtf) : rtf[q] = "}"
  IN IF \E p \in 1..Len(rtf) : Hit(p)
     THEN LET p == CHOOSE p \in 1..Len(rtf) :
                     Hit(p) /\ \A q \in 1..(p - 1) : ~Hit(q)
              from == p + Len(ColorTblOpen)
              body == SubSeq(rtf, from, RunEnd(rtf, from, NotCloseBrace) - 1)
              entries == NonBlankEntries(SplitSemi(body))
          IN <<<<"#", "0", "0", "0", "0", "0", "0">>>> \o [k \in 1..Len(entries) |-> EntryColor(entries[k])]
     ELSE <<<<"#", "0", "0", "0", "0", "0", "0">>>>

\* The positions 1..n that are in the set keep, in order.
Positions(n, keep) == SelectSeq([k \in 1..n |-> k], LAMBDA k : k \in keep)

\* rtf.replace(/\\'([0-9a-fA-F]{2})/g, h => String.fromCharCode(parseInt(h, 16))).
\* A match begins with a backslash and holds no other, so no two candidate
\* matches overlap and the scan replaces every one of them.
DecodeHexEscapes(s) ==
  LET Hit(p) == /\ MatchAt(s, p, <<"\\", "'">>)
                /\ p + 3 <= Len(s)
                /\ s[p + 2] \in HexDigits /\ s[p + 3] \in HexDigits
      kept == Positions(Len(s), {k \in 1..Len(s) :
                                   ~\E p \in (k - 3)..(k - 1) : Hit(p)})
  IN [j \in 1..Len(kept) |->
        LET k == kept[j]
        IN IF Hit(k)
           THEN CharOfCode[HexVal(s[k + 2]) * 16 + HexVal(s[k + 3]) + 1]
           ELSE s[k]]

\* src.replace(/\r\n/g, '\n')
NormalizeNewlines(s) ==
  LET kept == Positions(Len(s), {k \in 1..Len(s) :
                                   ~(s[k] = "\r" /\ k < Len(s) /\ s[k + 1] = "\n")})
  IN [j \in 1..Len(kept) |-> s[kept[j]]]

\* The null of curSizePx (a size is at least 8).
NullSize == 0

\* The null of curColor (a color is a non-empty string).
NullColor == <<>>

\* rtfToText's local state before the main scan; pos is the 1-based scan
\* position, mask tells, per character of out, whether a marker put it, and
\* log lists the opening and closing forms written to out, in order.
DecoderStart(rtf) ==
  [phase |-> "scan", rtf |-> rtf,
   colors |-> ColorTable(rtf),
   src |-> NormalizeNewlines(DecodeHexEscapes(rtf)),
   pos |-> 1, out |-> <<>>, mask |-> <<>>, log |-> <<>>, stack |-> <<>>,
   bold |-> FALSE, italic |-> FALSE, underline |-> FALSE, strike |-> FALSE,
   curColor |-> NullColor, curSizePx |-> NullSize]

\* out += text, from the input (tag FALSE) or from a marker (tag TRUE)
Emit(d, text, tag) ==
  [d EXCEPT !.out = @ \o text, !.mask = @ \o [k \in 1..Len(text) |-> tag]]

\* rtfToText.pushMarker
pushMarker(d, marker) ==
  [Emit(d, marker, TRUE) EXCEPT !.stack = Append(@, marker),
                                !.log = Append(@, [open |-> TRUE, form |-> marker])]

\* out += closeMarker in popMarker and closeAll
EmitClose(d, closeMarker) ==
  [Emit(d, closeMarker, TRUE) EXCEPT !.log = Append(@, [open |-> FALSE, form |-> closeMarker])]

\* Array.prototype.forEach(t => { out += t; stack.push(t); })
RECURSIVE pushAll(_, _)
pushAll(d, tail) ==
  IF tail = <<>> THEN d
  ELSE pushAll(pushMarker(d, tail[1]), SubSeq(tail, 2, Len(tail)))

\* rtfToText.popMarker
popMarker(d, openMarker, closeMarker) ==
  IF \E k \in 1..Len(d.stack) : d.stack[k] = openMarker
  THEN LET k == CHOOSE k \in 1..Len(d.stack) :
                  /\ d.stack[k] = openMarker
                  /\ \A j \in (k + 1)..Len(d.stack) : d.stack[j] # openMarker
           tail == SubSeq(d.stack, k, Len(d.stack))
           spliced == [d EXCEPT !.stack = SubSeq(d.stack, 1, k - 1)]
           popped == SubSeq(tail, 1, Len(tail) - 1)
       IN pushAll(EmitClose(spliced, closeMarker), popped)
  ELSE d

\* The closing form closeAll writes for a marker popped off the stack.
ClosingOf(m) ==
  IF m \in {<<"*", "*">>, <<"*">>, <<"_", "_">>, <<"~", "~">>} THEN m
  ELSE IF Len(m) >= 7 /\ SubSeq(m, 1, 7) = <<"[", "c", "o", "l", "o", "r", "=">> THEN <<"[", "/", "c", "o", "l", "o", "r", "]">>
  ELSE IF Len(m) >= 6 /\ SubSeq(m, 1, 6) = <<"[", "s", "i", "z", "e", "=">> THEN <<"[", "/", "s", "i", "z", "e", "]">>
  ELSE <<>>

RECURSIVE closeMarkers(_)
\* closeAll's loop: pop and close until the stack is empty
closeMarkers(d) ==
  IF d.stack = <<>> THEN d
  ELSE closeMarkers(EmitClose([d EXCEPT !.stack = SubSeq(d.stack, 1, Len(d.stack) - 1)],
                              ClosingOf(Last(d.stack))))

\* A closeAll that closes the markers and keeps the toggles and trackers.
closeAllKeepsToggles(d) == closeMarkers(d)

\* rtfToText.closeAll
closeAll(d) ==
  [closeMarkers(d) EXCEPT !.bold = FALSE, !.italic = FALSE,
                          !.underline = FALSE, !.strike = FALSE,
                          !.curColor = NullColor, !.curSizePx = NullSize]

\* The match of /^\\([a-zA-Z]+)(-?\d+)?\s?/ at the backslash at position p:
\* the lower-cased word, the parameter (if any) and the position after it.
ControlWord(src, p) ==
  LET wEnd == RunEnd(src, p + 1, Letters)
      minus == /\ wEnd + 1 <= Len(src)
               /\ src[wEnd] = "-"
               /\ src[wEnd + 1] \in Digits
      hasNum == minus \/ (wEnd <= Len(src) /\ src[wEnd] \in Digits)
      dStart == IF minus THEN wEnd + 1 ELSE wEnd
      dEnd == IF hasNum THEN RunEnd(src, dStart, Digits) ELSE wEnd
      val == IF hasNum THEN DigitsToNat(SubSeq(src, dStart, dEnd - 1)) ELSE 0
      sEnd == IF dEnd <= Len(src) /\ src[dEnd] \in Spaces THEN dEnd + 1 ELSE dEnd
  IN [matched |-> wEnd > p + 1,
      word |-> ToLowerCase(SubSeq(src, p + 1, wEnd - 1)),
      hasNum |-> hasNum,
      num |-> IF minus THEN 0 - val ELSE val,
      next |-> sEnd]

\* A toggle whose turn-on does not look at the attribute's state.
ToggleAlwaysPushes(d, m, field, marker) ==
  IF m.hasNum /\ m.num = 0 /\ d[field]
  THEN [popMarker(d, marker, marker) EXCEPT ![field] = FALSE]
  ELSE IF ~(m.hasNum /\ m.num = 0)
  THEN [pushMarker(d, marker) EXCEPT ![field] = TRUE]
  ELSE d

\* case 'b', 'i', 'ul', 'strike': the toggle named field with its marker
Toggle(d, m, field, marker) ==
  IF m.hasNum /\ m.num = 0 /\ d[field]
  THEN [popMarker(d, marker, marker) EXCEPT ![field] = FALSE]
  ELSE IF ~(m.hasNum /\ m.num = 0) /\ ~d[field]
  THEN [pushMarker(d, marker) EXCEPT ![field] = TRUE]
  ELSE d

SizeMarker(px) == <<"[", "s", "i", "z", "e", "=">> \o IntToStr(px) \o <<"]">>

ColorMarker(hex) == <<"[", "c", "o", "l", "o", "r", "=">> \o hex \o <<"]">>

\* case 'fs': Math.max(8, Math.round(((num || 0) / 2) * (96 / 72)))
SizePx(m) ==
  LET h == IF m.hasNum THEN m.num ELSE 0
  IN IF h <= 0 THEN 8 ELSE Max(8, (4 * h + 3) \div 6)

\* case 'fs'
FontSize(d, m) ==
  LET px == SizePx(m)
  IN IF px # d.curSizePx
     THEN LET closed == IF d.curSizePx # NullSize
                        THEN popMarker(d, SizeMarker(d.curSizePx), <<"[", "/", "s", "i", "z", "e", "]">>)
                        ELSE d
          IN pushMarker([closed EXCEPT !.curSizePx = px], SizeMarker(px))
     ELSE d

\* case 'cf'
ColorIndex(d, m) ==
  LET n == IF m.hasNum THEN m.num ELSE 0
      top == Len(d.colors) - 1
      idx == Max(0, IF top < n THEN top ELSE n)
      hex == d.colors[idx + 1]
  IN IF hex # d.curColor
     THEN LET closed == IF d.curColor # NullColor
                        THEN popMarker(d, ColorMarker(d.curColor), <<"[", "/", "c", "o", "l", "o", "r", "]">>)
                        ELSE d
          IN pushMarker([closed EXCEPT !.curColor = hex], ColorMarker(hex))
     ELSE d

\* The switch over the control word
ApplyWord(d, m) ==
  CASE m.word = <<"p", "a", "r">> -> Emit(d, <<"\n">>, FALSE)
    [] m.word = <<"t", "a", "b">> -> Emit(d, <<"\t">>, FALSE)
    [] m.word = <<"b">> -> Toggle(d, m, "bold", <<"*", "*">>)
    [] m.word = <<"i">> -> Toggle(d, m, "italic", <<"*">>)
    [] m.word = <<"u", "l">> -> Toggle(d, m, "underline", <<"_", "_">>)
    [] m.word = <<"u", "l", "n", "o", "n", "e">> ->
         IF d.underline
         THEN [popMarker(d, <<"_", "_">>, <<"_", "_">>) EXCEPT !.underline = FALSE]
         ELSE d
    [] m.word = <<"s", "t", "r", "i", "k", "e">> -> Toggle(d, m, "strike", <<"~", "~">>)
    [] m.word = <<"f", "s">> -> FontSize(d, m)
    [] m.word = <<"c", "f">> -> ColorIndex(d, m)
    [] OTHER -> d

\* The indices of out that out.replace(/\{\\\*[^}]*\}/g, '') keeps, from p on:
\* the leftmost match is cut and the scan goes on behind it.
RECURSIVE KeptFrom(_, _)
KeptFrom(out, p) ==
  LET Hit(q) == /\ MatchAt(out, q, <<"{", "\\", "*">>)
                /\ \E e \in (q + 3)..Len(out) : out[e] = "}"
  IN IF \E q \in p..Len(out) : Hit(q)
     THEN LET q == CHOOSE q \in p..Len(out) :
                     Hit(q) /\ \A r \in p..(q - 1) : ~Hit(r)
              e == RunEnd(out, q + 3, NotCloseBrace)
          IN [k \in 1..(q - p) |-> p + k - 1] \o KeptFrom(out, e + 1)
     ELSE [k \in 1..(Len(out) - p + 1) |-> p + k - 1]

\* The end of rtfToText: closeAll(), then the destinations are cut from out.
Finish(d) ==
  LET c == closeAll(d)
      kept == KeptFrom(c.out, 1)
  IN [c EXCEPT !.phase = "done",
               !.out = [k \in 1..Len(kept) |-> c.out[kept[k]]],
               !.mask = [k \in 1..Len(kept) |-> c.mask[kept[k]]]]

\* ----------------------------------------------------------- App state
\* activeDoc: docs.find(d => d.id === activeId) ?? docs[0]
activeDoc ==
  IF \E i \in 1..Len(docs) : docs[i] = activeId THEN activeId ELSE docs[1]

Open(d) == \E i \in 1..Len(docs) : docs[i] = d

\* A document whose tab was closed: its id was handed out and is not in docs.
Closed(d) == d < nextId /\ ~Open(d)

\* Write the objects of document d back.
Commit(d, o) ==
  /\ content' = [content EXCEPT ![d] = o.content]
  /\ undoStack' = [undoStack EXCEPT ![d] = o.undoStack]
  /\ redoStack' = [redoStack EXCEPT ![d] = o.redoStack]
  /\ stateTimeout' = [stateTimeout EXCEPT ![d] = o.stateTimeout]
  /\ timers' = [timers EXCEPT ![d] = o.timers]

NoBurst == [kind |-> "none", pre |-> <<>>, base |-> 0, pure |-> TRUE]
NoMark == [doc |-> 0, pre |-> <<>>, did |-> FALSE, fired |-> FALSE]
NoOp == [op |-> "init", doc |-> 0, old |-> <<>>, new |-> <<>>, cmds |-> <<>>,
         kind |-> "none", pre |-> <<>>, pure |-> TRUE, base |-> 0,
         did |-> FALSE, fired |-> FALSE, canUndo |-> FALSE, canRedo |-> FALSE]

\* The burst record after an edit that executed n commands on objects o.
BurstAfter(d, o, n) ==
  IF n = 0 THEN burst[d]
  ELSE IF o.timers = {}
       THEN [kind |-> IF n = 1 THEN "single" ELSE "fallback",
             pre |-> o.content, base |-> Len(o.undoStack), pure |-> TRUE]
       ELSE [burst[d] EXCEPT !.kind = "multi"]

Impure(d) == IF burst[d].kind = "none" THEN burst
             ELSE [burst EXCEPT ![d].pure = FALSE]

\* Doc.filePath of a document that has none
NoPath == <<>>

\* The name of a document that has no file
Untitled == <<"U", "n", "t", "i", "t", "l", "e", "d">>

\* The renderer after construction, its one document holding `text`.
InitEditorWith(text) ==
  /\ docs = <<1>>
  /\ activeId = 1
  /\ nextId = 2
  /\ isDirty = [d \in DocIds |-> FALSE]
  /\ content = [d \in DocIds |-> IF d = 1 THEN text ELSE <<>>]
  /\ undoStack = [d \in DocIds |-> <<>>]
  /\ redoStack = [d \in DocIds |-> <<>>]
  /\ stateTimeout = [d \in DocIds |-> 0]
  /\ timers = [d \in DocIds |-> {}]
  /\ lastOp = NoOp
  /\ burst = [d \in DocIds |-> NoBurst]
  /\ undoMark = NoMark
  /\ steps = 0
  /\ filePath = [d \in DocIds |-> NoPath]
  /\ name = [d \in DocIds |-> Untitled]
  /\ recovery = {}
  /\ recent = <<>>
  /\ inFlight = {}
  /\ savedIds = {}
  /\ autosave = TRUE

InitEditor == InitEditorWith(<<>>)

IdleDecoder == [phase |-> "idle"]

IdleEncoder == [kind |-> "none", plain |-> <<>>, meta |-> Meta(<<>>, 0, <<>>)]

\* useState's initial docs: one 'Untitled' document, new Editor, new
\* HistoryManager; the main process's codec is not running.
Init == InitEditor /\ enc = IdleEncoder /\ dec = IdleDecoder

\* Every handler run is counted; the count bounds the runs explored.
Tick == steps < MaxSteps /\ steps' = steps + 1 /\ UNCHANGED <<enc, dec>>

\* handleChange -> applyDiffEdit(newValue) on the active document
ApplyDiffEdit(newValue) ==
  LET d == activeDoc
      o == Obj(d)
      cmds == DiffCommands(getText(o), newValue)
  IN /\ Tick
     /\ Commit(d, applyDiffEdit(o, newValue))
     /\ isDirty' = [isDirty EXCEPT ![d] = TRUE]
     /\ lastOp' = [NoOp EXCEPT !.op = "edit", !.doc = d, !.old = getText(o),
                               !.new = newValue, !.cmds = cmds]
     /\ burst' = [burst EXCEPT ![d] = BurstAfter(d, o, Len(cmds))]
     /\ undoMark' = IF undoMark.doc = d /\ cmds # <<>> THEN NoMark ELSE undoMark
     /\ autosave' = TRUE
     /\ UNCHANGED <<docs, activeId, nextId, fileVars>>

\* The event loop runs a pending timeout of document d's HistoryManager.
TimerFire(d, t) ==
  /\ Tick
  /\ t \in timers[d]
  /\ Commit(d, [stateTimeoutCallback(Obj(d)) EXCEPT !.timers = timers[d] \ {t}])
  /\ lastOp' = [NoOp EXCEPT !.op = "fire", !.doc = d, !.kind = burst[d].kind,
                            !.pre = burst[d].pre, !.pure = burst[d].pure,
                            !.base = burst[d].base]
  /\ burst' = [burst EXCEPT ![d] = NoBurst]
  /\ undoMark' = IF undoMark.doc = d THEN [undoMark EXCEPT !.fired = TRUE]
                 ELSE undoMark
  /\ UNCHANGED <<docs, activeId, nextId, isDirty, fileVars, autosave>>

\* handleUndo (toolbar button, Cmd/Ctrl+Z)
HandleUndo ==
  LET d == activeDoc
      o == Obj(d)
  IN /\ Tick
     /\ Commit(d, undo(o))
     /\ isDirty' = [isDirty EXCEPT ![d] = TRUE]
     /\ lastOp' = [NoOp EXCEPT !.op = "undo", !.doc = d, !.old = getText(o)]
     /\ burst' = Impure(d)
     /\ undoMark' = [doc |-> d, pre |-> getText(o), did |-> canUndo(o),
                     fired |-> FALSE]
     /\ autosave' = TRUE
     /\ UNCHANGED <<docs, activeId, nextId, fileVars>>

\* handleRedo (toolbar button, Cmd/Ctrl+Shift+Z, Cmd/Ctrl+Y)
HandleRedo ==
  LET d == activeDoc
      o == Obj(d)
  IN /\ Tick
     /\ Commit(d, redo(o))
     /\ isDirty' = [isDirty EXCEPT ![d] = TRUE]
     /\ lastOp' = [NoOp EXCEPT !.op = "redo", !.doc = d, !.old = getText(o),
                               !.kind = IF undoMark.doc = d THEN "afterUndo" ELSE "none",
                               !.pre = undoMark.pre, !.did = undoMark.did,
                               !.fired = undoMark.fired]
     /\ burst' = Impure(d)
     /\ undoMark' = IF undoMark.doc = d THEN NoMark ELSE undoMark
     /\ autosave' = TRUE
     /\ UNCHANGED <<docs, activeId, nextId, fileVars>>

\* App's render: the Undo and Redo buttons are disabled by
\* !activeDoc.history.canUndo() and !activeDoc.history.canRedo().
RenderToolbar ==
  LET d == activeDoc
      o == Obj(d)
  IN /\ Tick
     /\ lastOp' = [NoOp EXCEPT !.op = "render", !.doc = d,
                               !.canUndo = canUndo(o), !.canRedo = canRedo(o)]
     /\ UNCHANGED <<docs, activeId, nextId, isDirty, content, undoStack,
                    redoStack, stateTimeout, timers, burst, undoMark, fileVars,
                    autosave>>

\* newTab
NewTab ==
  /\ Tick
  /\ nextId <= MaxDocs
  /\ docs' = Append(docs, nextId)
  /\ activeId' = nextId
  /\ nextId' = nextId + 1
  /\ lastOp' = [NoOp EXCEPT !.op = "newTab", !.doc = nextId]
  /\ autosave' = TRUE
  /\ UNCHANGED <<isDirty, content, undoStack, redoStack, stateTimeout, timers,
                 burst, undoMark, fileVars>>

\* docs.filter(d => d.id !== id)
Remaining(id) ==
  LET F[i \in 0..Len(docs)] ==
        IF i = 0 THEN <<>>
        ELSE IF docs[i] # id THEN Append(F[i - 1], docs[i]) ELSE F[i - 1]
  IN F[Len(docs)]

\* closeTab(id): the tab's close button, or Cmd/Ctrl+W on the active tab
CloseTab(id) ==
  /\ Tick
  /\ Open(id)
  /\ IF Remaining(id) = <<>>
     THEN /\ nextId <= MaxDocs
          /\ docs' = <<nextId>>
          /\ activeId' = nextId
          /\ nextId' = nextId + 1
     ELSE /\ docs' = Remaining(id)
          /\ activeId' = IF activeId = id THEN Last(Remaining(id)) ELSE activeId
          /\ nextId' = nextId
  /\ recovery' = recovery \ {id}
  /\ lastOp' = [NoOp EXCEPT !.op = "closeTab", !.doc = id]
  /\ autosave' = (autosave \/ activeDoc' # activeDoc)
  /\ UNCHANGED <<isDirty, content, undoStack, redoStack, stateTimeout, timers,
                 burst, undoMark, filePath, name, recent, inFlight, savedIds>>

\* A click on a tab: setActiveId(d.id)
SetActive(d) ==
  /\ Tick
  /\ Open(d)
  /\ d # activeId
  /\ activeId' = d
  /\ lastOp' = [NoOp EXCEPT !.op = "setActive", !.doc = d]
  /\ autosave' = TRUE
  /\ UNCHANGED <<docs, nextId, isDirty, content, undoStack, redoStack,
                 stateTimeout, timers, burst, undoMark, fileVars>>

\* One handler runs to completion per step (single-threaded event loop).
Next ==
  \/ \E newValue \in NewValues : ApplyDiffEdit(newValue)
  \/ \E d \in DocIds : \E t \in timers[d] : TimerFire(d, t)
  \/ HandleUndo
  \/ HandleRedo
  \/ RenderToolbar
  \/ NewTab
  \/ \E id \in DocIds : CloseTab(id)
  \/ \E d \in DocIds : SetActive(d)

Spec == Init /\ [][Next]_vars

\* ------------------------------------------- the reconciler on its own
\* A document just opened from a file: any content, empty history.
InitDiff ==
  /\ \E O \in StringsUpTo(MaxDiffLen) : InitEditorWith(O)
  /\ enc = IdleEncoder /\ dec = IdleDecoder

DiffEdit ==
  /\ lastOp.op = "init"
  /\ \E newValue \in StringsUpTo(MaxDiffLen) : ApplyDiffEdit(newValue)

DiffTimer ==
  /\ lastOp.op = "edit"
  /\ \E d \in DocIds : \E t \in timers[d] : TimerFire(d, t)

NextDiff == DiffEdit \/ DiffTimer

SpecDiff == InitDiff /\ [][NextDiff]_vars

\* ------------------------------------------------- files and recovery
\* The file paths the dialogs and the recent menu hand over.
Paths == {<<"/", "d", "/", "a", ".", "t", "x", "t">>, <<"c", ":", "\\", "b", ".", "r", "t", "f">>}

\* recent:push keeps the first ten
RecentMax == 10

\* filePath.split(/[\\/]/).pop()
Basename(fp) ==
  IF \E k \in 1..Len(fp) : fp[k] \in {"/", "\\"}
  THEN LET k == CHOOSE k \in 1..Len(fp) :
                  /\ fp[k] \in {"/", "\\"}
                  /\ \A j \in (k + 1)..Len(fp) : fp[j] \notin {"/", "\\"}
       IN SubSeq(fp, k + 1, Len(fp))
  ELSE fp

\* fp ? fp.split(/[\\/]/).pop() || 'Untitled' : 'Untitled'
NameOf(fp) == IF Basename(fp) = <<>> THEN Untitled ELSE Basename(fp)

\* recent:push that does not filter the pushed path out of the old list.
recentPushKeepsOld(items, fp) ==
  SliceTo(<<fp>> \o items, RecentMax)

\* recent:push: [filePath, ...items.filter(p => p !== filePath)].slice(0, 10)
recentPush(items, fp) ==
  SliceTo(<<fp>> \o SelectSeq(items, LAMBDA p : p # fp), RecentMax)

\* What an awaited call of window.api.file can come back with: nothing
\* (undefined), { canceled: true }, a rejection (the handler threw), or a
\* result.
Result(kind, fp, text) == [kind |-> kind, filePath |-> fp, content |-> text]

OpenResults ==
  {Result(k, NoPath, <<>>) : k \in {"none", "canceled", "failed"}}
    \cup {Result("ok", fp, text) : fp \in Paths, text \in NewValues}

SaveAsResults ==
  {Result(k, NoPath, <<>>) : k \in {"none", "canceled", "failed"}}
    \cup {Result("ok", fp, <<>>) : fp \in Paths}

SaveResults == {Result(k, NoPath, <<>>) : k \in {"none", "failed", "ok"}}

\* A declined result that only a missing value counts as.
DeclinedOnlyIfMissing(res) == res.kind = "none"

\* !result || result.canceled
Declined(res) == res.kind = "none" \/ res.kind = "canceled"

\* The awaited call rejected: the rest of the handler never runs.
Threw(res) == res.kind = "failed"

\* updateDoc(id, partial) reaches only a document that is in docs.
Updated(f, id, value) == IF Open(id) THEN [f EXCEPT ![id] = value] ELSE f

FileTick == Tick /\ steps < MaxFileSteps

\* updateDoc(id, ...) replaces the object of the active document, so that
\* the effects that depend on activeDoc run again.
Rerendered(id) == Open(id) /\ id = activeDoc

\* openFile, from the await of file.open / file.openPath on
OpenFileResult(res) ==
  /\ FileTick
  /\ lastOp' = [NoOp EXCEPT !.op = "openFile", !.kind = res.kind, !.doc = nextId]
  /\ IF Threw(res) \/ Declined(res)
     THEN UNCHANGED <<docs, activeId, nextId, isDirty, content, filePath, name,
                      recent, autosave>>
     ELSE /\ nextId <= MaxDocs
          /\ autosave' = TRUE
          /\ content' = [content EXCEPT ![nextId] = res.content]
          /\ filePath' = [filePath EXCEPT ![nextId] = res.filePath]
          /\ name' = [name EXCEPT ![nextId] =
                        IF res.filePath # NoPath THEN NameOf(res.filePath)
                        ELSE Untitled]
          /\ isDirty' = [isDirty EXCEPT ![nextId] = FALSE]
          /\ docs' = Append(docs, nextId)
          /\ activeId' = nextId
          /\ nextId' = nextId + 1
          /\ recent' = IF res.filePath # NoPath
                       THEN recentPush(recent, res.filePath) ELSE recent
  /\ UNCHANGED <<undoStack, redoStack, stateTimeout, timers, burst, undoMark,
                 recovery, inFlight, savedIds>>

\* A call in flight: the document and what the handler read from it.
Call(kind, d) ==
  [kind |-> kind, doc |-> d, name |-> name[d], filePath |-> filePath[d]]

\* saveAs(activeDoc), up to the await of file.saveAs
SaveAsRequest ==
  /\ FileTick
  /\ inFlight' = inFlight \cup {Call("saveAs", activeDoc)}
  /\ lastOp' = [NoOp EXCEPT !.op = "saveAsCall", !.doc = activeDoc]
  /\ UNCHANGED <<docs, activeId, nextId, isDirty, content, undoStack, redoStack,
                 stateTimeout, timers, burst, undoMark, filePath, name,
                 recovery, recent, savedIds, autosave>>

\* saveFile(activeDoc), up to the await of file.save or, for a document
\* without a file, of file.saveAs
SaveFileRequest ==
  /\ FileTick
  /\ inFlight' = inFlight \cup
       {Call(IF filePath[activeDoc] # NoPath THEN "save" ELSE "saveAs", activeDoc)}
  /\ lastOp' = [NoOp EXCEPT !.op = "saveFileCall", !.doc = activeDoc]
  /\ UNCHANGED <<docs, activeId, nextId, isDirty, content, undoStack, redoStack,
                 stateTimeout, timers, burst, undoMark, filePath, name,
                 recovery, recent, savedIds, autosave>>

\* saveAs, from the await of file.saveAs on
SaveAsResult(call, res) ==
  /\ FileTick
  /\ call \in inFlight /\ call.kind = "saveAs"
  /\ inFlight' = inFlight \ {call}
  /\ lastOp' = [NoOp EXCEPT !.op = "saveAs", !.kind = res.kind, !.doc = call.doc]
  /\ IF Threw(res) \/ Declined(res)
     THEN UNCHANGED <<filePath, name, isDirty, recovery, recent, savedIds, autosave>>
     ELSE /\ filePath' = Updated(filePath, call.doc, res.filePath)
          /\ savedIds' = savedIds \cup {call.doc}
          /\ autosave' = (autosave \/ Rerendered(call.doc))
          /\ name' = Updated(name, call.doc, NameOf(res.filePath))
          /\ isDirty' = Updated(isDirty, call.doc, FALSE)
          /\ recovery' = recovery \ {call.doc}
          /\ recent' = recentPush(recent, res.filePath)
  /\ UNCHANGED <<docs, activeId, nextId, content, undoStack, redoStack,
                 stateTimeout, timers, burst, undoMark>>

\* saveFile, from the await of file.save on
SaveFileResult(call, res) ==
  /\ FileTick
  /\ call \in inFlight /\ call.kind = "save"
  /\ inFlight' = inFlight \ {call}
  /\ lastOp' = [NoOp EXCEPT !.op = "saveFile", !.kind = res.kind, !.doc = call.doc]
  /\ IF Threw(res) \/ res.kind = "none"
     THEN UNCHANGED <<name, isDirty, recovery, recent, savedIds, autosave>>
     ELSE /\ name' = Updated(name, call.doc, call.name)
          /\ savedIds' = savedIds \cup {call.doc}
          /\ autosave' = (autosave \/ Rerendered(call.doc))
          /\ isDirty' = Updated(isDirty, call.doc, FALSE)
          /\ recovery' = recovery \ {call.doc}
          /\ recent' = recentPush(recent, call.filePath)
  /\ UNCHANGED <<docs, activeId, nextId, content, undoStack, redoStack,
                 stateTimeout, timers, burst, undoMark, filePath>>

\* The autosave effect's timeout, set anew whenever activeDoc is another
\* object than at the last render, fires:
\* recovery.write(activeDoc.id, payload)
Autosave ==
  /\ FileTick
  /\ autosave
  /\ autosave' = FALSE
  /\ recovery' = recovery \cup {activeDoc}
  /\ lastOp' = [NoOp EXCEPT !.op = "autosave", !.doc = activeDoc]
  /\ UNCHANGED <<docs, activeId, nextId, isDirty, content, undoStack, redoStack,
                 stateTimeout, timers, burst, undoMark, filePath, name, recent,
                 inFlight, savedIds>>

FilesEdit ==
  /\ steps < MaxFileSteps
  /\ \E newValue \in NewValues : ApplyDiffEdit(newValue)

FilesCloseTab ==
  /\ steps < MaxFileSteps
  /\ \E id \in DocIds : CloseTab(id)

FilesTimer ==
  /\ steps < MaxFileSteps
  /\ \E d \in DocIds : \E t \in timers[d] : TimerFire(d, t)

NextFiles ==
  \/ FilesEdit
  \/ FilesTimer
  \/ FilesCloseTab
  \/ \E res \in OpenResults : OpenFileResult(res)
  \/ SaveAsRequest
  \/ SaveFileRequest
  \/ \E call \in inFlight : \E res \in SaveAsResults : SaveAsResult(call, res)
  \/ \E call \in inFlight : \E res \in SaveResults : SaveFileResult(call, res)
  \/ Autosave

SpecFiles == Init /\ [][NextFiles]_vars

\* ------------------------------------------------ tabs and recovery load

\* The call of recovery.readAll the restore effect awaits after mount.
ReadAll == [kind |-> "readAll", doc |-> 0, name |-> <<>>, filePath |-> NoPath]

\* The records an earlier run left in the recovery directory are named by
\* that run's document ids; genId hands this run other ids.
InitTabs ==
  \E n \in 0..(MaxDocs - 1) :
    /\ docs = <<1>>
    /\ activeId = 1
    /\ recovery = 2..(n + 1)
    /\ nextId = n + 2
    /\ inFlight = {ReadAll}
    /\ isDirty = [d \in DocIds |-> FALSE]
    /\ content = [d \in DocIds |-> <<>>]
    /\ undoStack = [d \in DocIds |-> <<>>]
    /\ redoStack = [d \in DocIds |-> <<>>]
    /\ stateTimeout = [d \in DocIds |-> 0]
    /\ timers = [d \in DocIds |-> {}]
    /\ lastOp = NoOp
    /\ burst = [d \in DocIds |-> NoBurst]
    /\ undoMark = NoMark
    /\ steps = 0
    /\ filePath = [d \in DocIds |-> NoPath]
    /\ name = [d \in DocIds |-> Untitled]
    /\ recent = <<>>
    /\ savedIds = {}
    /\ autosave = TRUE
    /\ enc = IdleEncoder
    /\ dec = IdleDecoder

\* files.map(...) of recovery:readAll: the records in directory order
InOrder(S) ==
  LET F[T \in SUBSET S] ==
        IF T = {} THEN <<>>
        ELSE LET least == CHOOSE x \in T : \A y \in T : x <= y
             IN <<least>> \o F[T \ {least}]
  IN F[S]

\* The documents the restore effect keeps from before: none when the only
\* one is blank and has no file.
KeptDocs ==
  IF Len(docs) = 1 /\ Len(content[docs[1]]) = 0 /\ filePath[docs[1]] = NoPath
  THEN <<>>
  ELSE docs

\* The restore effect, from the await of recovery.readAll on
RecoveryLoad(call) ==
  /\ FileTick
  /\ call \in inFlight /\ call.kind = "readAll"
  /\ inFlight' = inFlight \ {call}
  /\ LET recovered == recovery
     IN IF recovered = {}
        THEN /\ lastOp' = [NoOp EXCEPT !.op = "restore"]
             /\ UNCHANGED <<docs, isDirty, content, undoStack, redoStack,
                            stateTimeout, timers, filePath, name, autosave>>
        ELSE \E text \in [recovered -> NewValues] :
             \E fp \in [recovered -> {NoPath} \cup Paths] :
               /\ docs' = KeptDocs \o InOrder(recovered)
               /\ content' = [d \in DocIds |->
                                IF d \in recovered THEN text[d] ELSE content[d]]
               /\ filePath' = [d \in DocIds |->
                                 IF d \in recovered THEN fp[d] ELSE filePath[d]]
               /\ name' = [d \in DocIds |->
                             IF d \in recovered
                             THEN (IF fp[d] # NoPath THEN NameOf(fp[d]) ELSE Untitled)
                             ELSE name[d]]
               /\ isDirty' = [d \in DocIds |-> d \in recovered \/ isDirty[d]]
               /\ undoStack' = [d \in DocIds |->
                                  IF d \in recovered THEN <<>> ELSE undoStack[d]]
               /\ redoStack' = [d \in DocIds |->
                                  IF d \in recovered THEN <<>> ELSE redoStack[d]]
               /\ stateTimeout' = [d \in DocIds |->
                                     IF d \in recovered THEN 0 ELSE stateTimeout[d]]
               /\ timers' = [d \in DocIds |->
                               IF d \in recovered THEN {} ELSE timers[d]]
               /\ autosave' = (autosave \/ activeDoc' # activeDoc)
               /\ lastOp' = [NoOp EXCEPT !.op = "restore", !.kind = "ok"]
  /\ UNCHANGED <<activeId, nextId, burst, undoMark, recovery, recent, savedIds>>

TabsNewTab == steps < MaxFileSteps /\ NewTab

TabsSetActive ==
  /\ steps < MaxFileSteps
  /\ \E d \in DocIds : SetActive(d)

NextTabs ==
  \/ FilesEdit
  \/ FilesTimer
  \/ TabsNewTab
  \/ TabsSetActive
  \/ FilesCloseTab
  \/ \E res \in OpenResults : OpenFileResult(res)
  \/ \E call \in inFlight : RecoveryLoad(call)

SpecTabs == InitTabs /\ [][NextTabs]_vars

\* ------------------------------------------------------ the recent list
\* More paths than the list keeps.
MaxRecentPaths == 11
MaxRecentSteps == 3

\* The i-th of the paths handed to recent:push
RecentPath(i) == <<"/", "f">> \o NatToStr(i)

RecentPaths == {RecentPath(i) : i \in 1..MaxRecentPaths}

\* recent.json as earlier runs can have left it: missing or empty (read as
\* []), or holding the paths pushed last, at most ten of them.
RecentLists ==
  {[i \in 1..k |-> RecentPath(k + 1 - i)] : k \in 0..RecentMax}

InitRecent ==
  /\ recent \in RecentLists
  /\ docs = <<1>>
  /\ activeId = 1
  /\ nextId = 2
  /\ isDirty = [d \in DocIds |-> FALSE]
  /\ content = [d \in DocIds |-> <<>>]
  /\ undoStack = [d \in DocIds |-> <<>>]
  /\ redoStack = [d \in DocIds |-> <<>>]
  /\ stateTimeout = [d \in DocIds |-> 0]
  /\ timers = [d \in DocIds |-> {}]
  /\ lastOp = NoOp
  /\ burst = [d \in DocIds |-> NoBurst]
  /\ undoMark = NoMark
  /\ steps = 0
  /\ filePath = [d \in DocIds |-> NoPath]
  /\ name = [d \in DocIds |-> Untitled]
  /\ recovery = {}
  /\ inFlight = {}
  /\ savedIds = {}
  /\ autosave = TRUE
  /\ enc = IdleEncoder
  /\ dec = IdleDecoder

RecentTick ==
  /\ steps < MaxRecentSteps
  /\ steps' = steps + 1
  /\ UNCHANGED <<docs, activeId, nextId, isDirty, content, undoStack, redoStack,
                 stateTimeout, timers, burst, undoMark, filePath, name,
                 recovery, inFlight, savedIds, autosave, enc, dec>>

\* Where the pushed path stood in the list before the push.
Standing(items, fp) ==
  IF \A k \in 1..Len(items) : items[k] # fp THEN "new"
  ELSE IF items[1] = fp THEN "front" ELSE "moved"

\* ipcMain.handle('recent:push', ...)
RecentPush(fp) ==
  /\ RecentTick
  /\ recent' = recentPush(recent, fp)
  /\ lastOp' = [NoOp EXCEPT !.op = "recentPush", !.new = fp,
                            !.kind = Standing(recent, fp), !.base = Len(recent)]

\* ipcMain.handle('recent:clear', ...)
RecentClear ==
  /\ RecentTick
  /\ recent' = <<>>
  /\ lastOp' = [NoOp EXCEPT !.op = "recentClear", !.base = Len(recent)]

NextRecent ==
  \/ \E fp \in RecentPaths : RecentPush(fp)
  \/ RecentClear

SpecRecent == InitRecent /\ [][NextRecent]_vars

\* --------------------------------------------- one command on its own
Commands ==
  {Delete(count) : count \in 0..MaxCount}
    \cup {Insert(text) : text \in StringsUpTo(MaxLen) \ {<<>>}}

\* new DeleteCommand(editor, history, count).execute() or
\* new TypeCommand(editor, history, textToAdd).execute() on the active document
ExecuteCommand(c) ==
  LET d == activeDoc
      o == Obj(d)
  IN /\ Tick
     /\ Commit(d, Execute(o, c))
     /\ lastOp' = [NoOp EXCEPT !.op = "command", !.doc = d, !.old = getText(o),
                               !.cmds = <<c>>]
     /\ burst' = [burst EXCEPT ![d] = BurstAfter(d, o, 1)]
     /\ UNCHANGED <<docs, activeId, nextId, isDirty, undoMark, fileVars, autosave>>

CommandRun ==
  /\ lastOp.op = "init"
  /\ \E c \in Commands : ExecuteCommand(c)

CommandTimer ==
  /\ lastOp.op = "command"
  /\ \E d \in DocIds : \E t \in timers[d] : TimerFire(d, t)

NextCommand == CommandRun \/ CommandTimer

SpecCommand == InitDiff /\ [][NextCommand]_vars

\* ------------------------------------------------ the encoder's runs
\* The font sizes a document can carry, in px.
FontSizes == 8..MaxFontSize

\* Colors as the color input gives them, in lower and upper case.
WellFormedColors == {<<"#", "f", "f", "0", "0", "0", "0">>, <<"#", "0", "0", "0", "0", "0", "0">>, <<"#", "0", "f", "1", "7", "2", "a">>, <<"#", "A", "B", "C", "D", "E", "F">>}

\* Colors that are not '#' and six hex digits: the 3-digit shorthand, too
\* short, a color name, empty, non-hex digits in front and at the end.
MalformedColors == {<<"#", "f", "0", "0">>, <<"#", "1", "2">>, <<"r", "e", "d">>, <<>>, <<"#", "g", "g", "0", "0", "0", "0">>, <<"#", "f", "f", "0", "0", "z", "z">>}

\* Texts with LF and CRLF line ends, braces, backslashes, and one that
\* reads like the encoder's own paragraph break.
EncoderTexts ==
  {<<>>, <<"a", "\n", "b">>, <<"a", "\r", "\n", "b">>, <<"}">>, <<"\\", "}">>, <<"a", "}", "\r", "\n", "{", "\\">>, <<"\\", "p", "a", "r", "\n">>}

\* file:save / file:saveAs of a .rtf has been asked for content and meta.
InitEncoder ==
  /\ InitEditor
  /\ dec = IdleDecoder
  /\ \E plain \in EncoderTexts, size \in FontSizes,
        color \in WellFormedColors \cup MalformedColors :
        enc = [kind |-> "asked", plain |-> plain,
               meta |-> Meta(<<"A", "r", "i", "a", "l">>, size, color), rtf |-> <<>>]

\* const data = toRtf(content, meta)
Encode ==
  /\ enc.kind = "asked"
  /\ enc' = [enc EXCEPT !.kind = "written", !.rtf = toRtf(enc.plain, enc.meta)]
  /\ UNCHANGED <<dec, editorVars>>

NextEncoder == Encode

SpecEncoder == InitEncoder /\ [][NextEncoder]_vars

\* -------------------------------------------------- the codec's runs
MaxTextLen == 2

TextAlphabet == {"a", "\\", "{", "\n"}

\* Texts with a closing brace, a leading space, CRLF, a hex escape
\* look-alike, an escape look-alike that decodes to a space, and a
\* destination look-alike.
SpecialTexts ==
  {<<"}">>, <<" ", "a">>, <<"a", "\r", "\n", "b">>, <<"\\", "'", "4", "1">>, <<"\\", "'", "2", "0">>, <<"{", "\\", "*", "a", "}">>}

Texts == (UNION {[1..k -> TextAlphabet] : k \in 0..MaxTextLen}) \cup SpecialTexts

Metas ==
  {Meta(<<"A", "r", "i", "a", "l">>, 16, <<"#", "f", "f", "0", "0", "0", "0">>),
   Meta(<<"C", "o", "u", "r", "i", "e", "r", " ", "N", "e", "w">>, 14, <<"#", "0", "0", "0", "0", "0", "0">>)}

MaxRawLen == 3

RawAlphabet == {"\\", "{", "}", "b", "0", " "}

\* Unbalanced braces, turn-off words with nothing open, a trailing backslash.
Malformed == <<"}", "\\", "b", "0", " ", "\\", "i", "0", " ", "\\", "u", "l", "n", "o", "n", "e", " ", "\\", "s", "t", "r", "i", "k", "e", "0", " ", "x", "{", "{", "\\">>

\* Every string of markup characters up to a length, well-formed or not.
ShortRaw == UNION {[1..k -> RawAlphabet] : k \in 0..MaxRawLen}

\* Markup that no save of this program wrote: the spec's decoder scenario,
\* overlapping toggles, a tab, an unknown word, a destination, lone backslashes.
RawInputs ==
  {<<"{", "\\", "r", "t", "f", "1", "\\", "a", "n", "s", "i", "{", "\\", "f", "o", "n", "t", "t", "b", "l", "{", "\\", "f", "0", " ", "A", "r", "i", "a", "l", ";", "}", "}", "{", "\\", "c", "o", "l", "o", "r", "t", "b", "l", ";", "\\", "r", "e", "d", "2", "5", "5", "\\", "g", "r", "e", "e", "n", "0", "\\", "b", "l", "u", "e", "0", ";", "}", "\\", "f", "0", "\\", "f", "s", "2", "8", "\\", "c", "f", "1", " ", "H", "i", "\\", "b", " ", "b", "o", "l", "d", "\\", "b", "0", " ", "e", "n", "d", "\\", "p", "a", "r", "}">>,
   <<"\\", "b", " ", "a", "\\", "i", " ", "b", "\\", "b", "0", " ", "c", "\\", "i", "0", " ", "\\", "u", "l", " ", "u", "\\", "u", "l", "n", "o", "n", "e", " ", "\\", "s", "t", "r", "i", "k", "e", " ", "s", "\\", "s", "t", "r", "i", "k", "e", "0", " ", "\\", "t", "a", "b", "\\", "x", "1", " ", "y">>,
   <<"{", "\\", "*", "\\", "g", "e", "n", " ", "x", "}", "a", "\\", " ", "b", "\\">>}

\* All four toggles, a size and a color open at the end of a group.
AllOpenAtGroupEnd == <<"\\", "b", "\\", "i", "\\", "u", "l", "\\", "s", "t", "r", "i", "k", "e", "\\", "f", "s", "2", "8", "\\", "c", "f", "1", " ", "x", "}", "y">>

\* Turn-on words for an attribute that is on, turn-off words for one that
\* is off.
RedundantToggles == <<"\\", "b", " ", "a", "\\", "b", "1", " ", "b", "\\", "u", "l", "n", "o", "n", "e", " ", "\\", "u", "l", "\\", "u", "l", " ", "\\", "i", "0", " ", "\\", "s", "t", "r", "i", "k", "e", "\\", "s", "t", "r", "i", "k", "e", "-", "1", " ", "c">>

\* Font sizes one after the other: a change, a repetition, a missing and a
\* negative parameter.
SizeChanges == <<"\\", "f", "s", "2", "8", " ", "a", "\\", "f", "s", "3", "0", " ", "b", "\\", "f", "s", "3", "0", " ", "c", "\\", "f", "s", " ", "d", "\\", "f", "s", "-", "4", " ", "e", "\\", "f", "s", "1", "3", " ", "f">>

\* A font size changed while a bold opened after the first size is on.
SizeUnderBold == <<"\\", "f", "s", "2", "8", "\\", "b", " ", "x", "\\", "f", "s", "3", "0", " ", "y">>

\* Color indices against a table of two entries: a change, an index beyond
\* the table, a negative and a missing parameter, index 0.
ColorChanges ==
  <<"{", "\\", "c", "o", "l", "o", "r", "t", "b", "l", ";", "\\", "r", "e", "d", "2", "5", "5", "\\", "g", "r", "e", "e", "n", "0", "\\", "b", "l", "u", "e", "0", ";", "\\", "r", "e", "d", "0", "\\", "g", "r", "e", "e", "n", "0", "\\", "b", "l", "u", "e", "2", "5", "5", ";", "}", "\\", "c", "f", "1", " ", "a", "\\", "c", "f", "2", " ", "b", "\\", "c", "f", "9", " ", "c", "\\", "c", "f", "-", "1", " ", "d", "\\", "c", "f", " ", "e", "\\", "c", "f", "0", " ", "f">>

\* A color opened under a bold that is closed before the color changes.
ColorUnderBold == <<"{", "\\", "c", "o", "l", "o", "r", "t", "b", "l", ";", "\\", "r", "e", "d", "2", "5", "5", "\\", "g", "r", "e", "e", "n", "0", "\\", "b", "l", "u", "e", "0", ";", "}", "\\", "b", "\\", "c", "f", "1", " ", "x", "\\", "b", "0", " ", "y", "\\", "c", "f", "0", " ", "z">>

\* A color table whose second entry is empty, and a use of the third.
EmptyColorEntry == <<"{", "\\", "c", "o", "l", "o", "r", "t", "b", "l", ";", "\\", "r", "e", "d", "2", "5", "5", "\\", "g", "r", "e", "e", "n", "0", "\\", "b", "l", "u", "e", "0", ";", ";", "\\", "r", "e", "d", "0", "\\", "g", "r", "e", "e", "n", "0", "\\", "b", "l", "u", "e", "2", "5", "5", ";", "}", "\\", "c", "f", "2", " ", "x">>

\* Markup that exercises single cases of the control-word switch.
DecoderCases ==
  {AllOpenAtGroupEnd, RedundantToggles, SizeChanges, SizeUnderBold,
   ColorChanges, ColorUnderBold, EmptyColorEntry}

\* file:save of a .rtf followed by file:open of it, or file:open of a .rtf
\* written elsewhere: rtfToText is entered with the file's text.
InitCodec ==
  /\ InitEditor
  /\ \/ \E plain \in Texts, meta \in Metas :
          /\ enc = [kind |-> "encoded", plain |-> plain, meta |-> meta]
          /\ dec = DecoderStart(toRtf(plain, meta))
     \/ \E raw \in RawInputs \cup {Malformed} \cup ShortRaw \cup DecoderCases :
          /\ enc = [kind |-> "raw", plain |-> <<>>, meta |-> Meta(<<>>, 0, <<>>)]
          /\ dec = DecoderStart(raw)

Scanning == dec.phase = "scan" /\ dec.pos <= Len(dec.src)

Ch == dec.src[dec.pos]

\* src[i + 1] is one of the three escaped characters
EscapedNext ==
  dec.pos + 1 <= Len(dec.src) /\ dec.src[dec.pos + 1] \in {"\\", "{", "}"}

\* A scan step that starts over at the beginning of the input.
AdvanceRewinds(d, next) == [d EXCEPT !.pos = 1]

\* i after an iteration of the scan (the loop's i += 1 included)
Advance(d, next) == [d EXCEPT !.pos = next]

\* ch === '{': no-op
ScanGroupOpen ==
  /\ Scanning /\ Ch = "{"
  /\ dec' = Advance(dec, dec.pos + 1)
  /\ UNCHANGED <<enc, editorVars>>

\* ch === '}': closeAll()
ScanGroupClose ==
  /\ Scanning /\ Ch = "}"
  /\ dec' = Advance(closeAll(dec), dec.pos + 1)
  /\ UNCHANGED <<enc, editorVars>>

\* ch === '\\' before '\\', '{' or '}': the escaped character is written
ScanEscaped ==
  /\ Scanning /\ Ch = "\\" /\ EscapedNext
  /\ dec' = Advance(Emit(dec, <<dec.src[dec.pos + 1]>>, FALSE), dec.pos + 2)
  /\ UNCHANGED <<enc, editorVars>>

\* ch === '\\' and the control word pattern matches
ScanControlWord ==
  /\ Scanning /\ Ch = "\\" /\ ~EscapedNext
  /\ ControlWord(dec.src, dec.pos).matched
  /\ LET m == ControlWord(dec.src, dec.pos)
     IN dec' = Advance(ApplyWord(dec, m), m.next)
  /\ UNCHANGED <<enc, editorVars>>

\* ch === '\\' and nothing matches: the backslash is skipped
ScanLoneBackslash ==
  /\ Scanning /\ Ch = "\\" /\ ~EscapedNext
  /\ ~ControlWord(dec.src, dec.pos).matched
  /\ dec' = Advance(dec, dec.pos + 1)
  /\ UNCHANGED <<enc, editorVars>>

\* any other character: out += ch
ScanChar ==
  /\ Scanning /\ Ch \notin {"{", "}", "\\"}
  /\ dec' = Advance(Emit(dec, <<Ch>>, FALSE), dec.pos + 1)
  /\ UNCHANGED <<enc, editorVars>>

\* the loop has ended: closeAll(), the cleanup replace, return out
ScanEnd ==
  /\ dec.phase = "scan" /\ dec.pos > Len(dec.src)
  /\ dec' = Finish(dec)
  /\ UNCHANGED <<enc, editorVars>>

NextCodec ==
  \/ ScanGroupOpen
  \/ ScanGroupClose
  \/ ScanEscaped
  \/ ScanControlWord
  \/ ScanLoneBackslash
  \/ ScanChar
  \/ ScanEnd

SpecCodec == InitCodec /\ [][NextCodec]_vars

\* rtfToText is one synchronous call: once entered, its loop keeps running.
SpecCodecFair == SpecCodec /\ WF_vars(NextCodec)

\* ------------------------------------------------------------- claims
\* The document a fired timer belonged to, and its objects now.
FiredDoc == lastOp.doc

\* C1: when the timer of a burst of edit-intents (no undo or redo among
\* them) fires, the checkpoint it pushes holds the content from before the
\* first edit of the burst.
C1_CheckpointHoldsPreBurstContent ==
  (lastOp.op = "fire" /\ lastOp.kind # "none" /\ lastOp.pure)
    => getState(Last(undoStack[FiredDoc])) = lastOp.pre

\* C2: after one Insert or Delete command on content C and the firing of
\* its timer, a single undo restores the content to C.
C2_UndoRestoresPreEditContent ==
  [][(/\ lastOp.op = "fire" /\ lastOp.kind = "single" /\ lastOp.pure
      /\ lastOp'.op = "undo" /\ lastOp'.doc = lastOp.doc)
     => content'[lastOp.doc] = lastOp.pre]_vars

C4_ExecuteClearsRedo ==
  (lastOp.op = "edit" /\ lastOp.cmds # <<>>) => ~canRedo(Obj(lastOp.doc))

\* C5: a HistoryManager has at most one pending timer, the one it
\* remembers; the saveState calls of a burst push nothing themselves, and
\* the one firing that ends the burst leaves the undo stack exactly one
\* entry longer than it was when the burst began, with nothing pending.
C5_OnePendingTimerOneEntry ==
  /\ \A d \in DocIds :
       /\ Cardinality(timers[d]) <= 1
       /\ timers[d] # {} => timers[d] = {stateTimeout[d]}
       /\ (burst[d].kind # "none" /\ burst[d].pure)
            => Len(undoStack[d]) = burst[d].base
  /\ (lastOp.op = "fire" /\ lastOp.pure)
       => /\ Len(undoStack[FiredDoc]) = lastOp.base + 1
          /\ timers[FiredDoc] = {}

\* A burst of several saveState calls has ended with one capture.
C5_Witness ==
  /\ lastOp.op = "fire" /\ lastOp.kind = "multi" /\ lastOp.pure
  /\ Len(undoStack[FiredDoc]) = lastOp.base + 1
  /\ timers[FiredDoc] = {}

\* C6: after applyDiffEdit has processed the new value N, the buffer
\* content equals N.
C6_BufferEndsAtNew ==
  lastOp.op = "edit" => content[lastOp.doc] = lastOp.new

\* A fallback reconciliation (delete all, insert all) ended at the new value.
C6_Witness ==
  /\ lastOp.op = "edit" /\ Len(lastOp.cmds) = 2
  /\ content[lastOp.doc] = lastOp.new

\* p is s or a shorter beginning of s
IsPrefix(p, s) == \E k \in 0..Len(s) : p = SubSeq(s, 1, k)

\* The commands the prefix relation of O and N calls for.
CommandsByPrefix(O, N) ==
  CASE O = N -> <<>>
    [] O # N /\ IsPrefix(O, N) -> <<Insert(SubSeq(N, Len(O) + 1, Len(N)))>>
    [] O # N /\ IsPrefix(N, O) -> <<Delete(Len(O) - Len(N))>>
    [] OTHER -> (IF O # <<>> THEN <<Delete(Len(O))>> ELSE <<>>)
                \o (IF N # <<>> THEN <<Insert(N)>> ELSE <<>>)

\* C7: the reconciler's commands are fixed by the prefix relation of the
\* old content O and the new value N: one Insert of N[len(O):] if O is a
\* proper prefix of N, none if N = O, one Delete(len(O)-len(N)) if N is a
\* proper prefix of O, else Delete(len(O)) (O non-empty) then Insert(N)
\* (N non-empty).
C7_CommandsByPrefixRelation ==
  lastOp.op = "edit" => lastOp.cmds = CommandsByPrefix(lastOp.old, lastOp.new)

\* A non-empty O was a proper prefix of N and one Insert of the rest ran.
C7_Witness ==
  /\ lastOp.op = "edit"
  /\ lastOp.old # <<>> /\ Len(lastOp.new) > Len(lastOp.old)
  /\ lastOp.cmds = <<Insert(SubSeq(lastOp.new, Len(lastOp.old) + 1, Len(lastOp.new)))>>

\* C8 as stated: once the debounce window of a fallback reconciliation has
\* elapsed, the undo stack has grown by two entries.
C8_FallbackPushesTwo ==
  (lastOp.op = "fire" /\ lastOp.kind = "fallback" /\ lastOp.pure)
    => Len(undoStack[FiredDoc]) = lastOp.base + 2

\* C8 amended: a fallback reconciliation calls saveState twice, the second
\* call cancelling the timer of the first; once the debounce window has
\* elapsed the undo stack has grown by exactly one entry and no further
\* capture is pending.
C8_FallbackPushesOne ==
  (lastOp.op = "fire" /\ lastOp.kind = "fallback" /\ lastOp.pure)
    => /\ Len(undoStack[FiredDoc]) = lastOp.base + 1
       /\ timers[FiredDoc] = {}

\* The timer of a burst made of one fallback reconciliation has fired.
C8_Witness ==
  /\ lastOp.op = "fire" /\ lastOp.kind = "fallback" /\ lastOp.pure
  /\ Len(undoStack[FiredDoc]) = lastOp.base + 1

\* C9: after closeTab for a document nothing is pushed onto its undo stack
\* and its redo stack is not cleared.
C9_ClosedHistoryUntouched ==
  [][\A d \in DocIds :
       Closed(d) => /\ undoStack'[d] = undoStack[d]
                    /\ redoStack'[d] = redoStack[d]]_vars

\* The decoder's output without the characters its markers put there.
StripTags(out, mask) ==
  LET kept == Positions(Len(out), {k \in 1..Len(out) : ~mask[k]})
  IN [j \in 1..Len(kept) |-> out[kept[j]]]

\* C10: rtfToText of toRtf(T, S), with the pseudo-tags the decoder inserted
\* removed, is T.
C10_RoundTripYieldsText ==
  (enc.kind = "encoded" /\ dec.phase = "done")
    => StripTags(dec.out, dec.mask) = enc.plain

\* C11: canUndo() is false exactly when the undo stack is empty, canRedo()
\* is false exactly when the redo stack is empty, and a render that calls
\* both leaves the stacks, the pending timer and the buffer as they were.
C11_CanUndoRedoTellEmptiness ==
  [][/\ \A d \in DocIds :
          /\ ~canUndo(Obj(d)) <=> undoStack[d] = <<>>
          /\ ~canRedo(Obj(d)) <=> redoStack[d] = <<>>
     /\ lastOp'.op = "render"
          => /\ ~lastOp'.canUndo <=> undoStack[lastOp'.doc] = <<>>
             /\ ~lastOp'.canRedo <=> redoStack[lastOp'.doc] = <<>>
             /\ UNCHANGED <<content, undoStack, redoStack, stateTimeout, timers>>]_vars

\* A render found nothing to undo and something to redo.
C11_Witness ==
  /\ lastOp.op = "render" /\ ~lastOp.canUndo /\ lastOp.canRedo
  /\ undoStack[lastOp.doc] = <<>> /\ redoStack[lastOp.doc] # <<>>

\* C12: undo with an empty undo stack and redo with an empty redo stack
\* change neither the buffer content nor the undo stack, the redo stack or
\* the pending timer.
C12_EmptyUndoRedoAreNoOps ==
  [][/\ (lastOp'.op = "undo" /\ undoStack[lastOp'.doc] = <<>>)
          => UNCHANGED <<content, undoStack, redoStack, stateTimeout, timers>>
     /\ (lastOp'.op = "redo" /\ redoStack[lastOp'.doc] = <<>>)
          => UNCHANGED <<content, undoStack, redoStack, stateTimeout, timers>>]_vars

\* An undo ran on a buffer with text and a pending timer but nothing on
\* the undo stack.
C12_Witness ==
  /\ lastOp.op = "undo"
  /\ undoMark.doc = lastOp.doc /\ ~undoMark.did
  /\ content[lastOp.doc] # <<>> /\ timers[lastOp.doc] # {}
  /\ undoStack[lastOp.doc] = <<>> /\ redoStack[lastOp.doc] = <<>>

\* C13: Delete.execute with count c on content S leaves the first
\* max(0, len(S) - c) characters of S; for c >= len(S) that is the empty
\* string.
C13_DeleteClampsToEmpty ==
  (lastOp.op = "command" /\ lastOp.cmds[1].type = "Delete")
    => LET S == lastOp.old
           c == lastOp.cmds[1].count
           now == content[lastOp.doc]
       IN /\ Len(now) = (IF Len(S) - c > 0 THEN Len(S) - c ELSE 0)
          /\ \A k \in 1..Len(now) : now[k] = S[k]
          /\ c >= Len(S) => now = <<>>

\* A Delete asked for more characters than the buffer held.
C13_Witness ==
  /\ lastOp.op = "command" /\ lastOp.cmds[1].type = "Delete"
  /\ lastOp.old # <<>> /\ lastOp.cmds[1].count > Len(lastOp.old)
  /\ content[lastOp.doc] = <<>>

\* C14: for every input, malformed or truncated markup included, every
\* iteration of the decoder's scan moves the input position strictly
\* forward, and the decoder ends by returning its output.
C14_DecoderAlwaysReturns ==
  /\ [][dec.phase = "scan"
          => \/ dec'.phase = "done"
             \/ /\ dec'.phase = "scan"
                /\ dec'.pos > dec.pos
                /\ dec'.pos <= Len(dec.src) + 1]_vars
  /\ [](dec.phase = "scan" => <>(dec.phase = "done"))

\* The decoder returned for markup with unbalanced braces, turn-off words
\* with nothing open and a trailing lone backslash.
C14_Witness ==
  /\ dec.phase = "done" /\ dec.rtf = Malformed
  /\ dec.out = <<"x">>

\* The position of the first occurrence of pat in s (0 if there is none).
IndexOf(s, pat) ==
  IF \E p \in 1..Len(s) : MatchAt(s, p, pat)
  THEN CHOOSE p \in 1..Len(s) :
         MatchAt(s, p, pat) /\ \A q \in 1..(p - 1) : ~MatchAt(s, q, pat)
  ELSE 0

\* The parameter of the \fs directive the encoder wrote.
WrittenFs == ControlWord(enc.rtf, IndexOf(enc.rtf, <<"\\", "f", "s">>))

\* The three control words of the color table entry the encoder wrote.
WrittenRed == ControlWord(enc.rtf, IndexOf(enc.rtf, ColorTblOpen) + Len(ColorTblOpen))

WrittenGreen == ControlWord(enc.rtf, WrittenRed.next)

WrittenBlue == ControlWord(enc.rtf, WrittenGreen.next)

WrittenChannels == <<WrittenRed.num, WrittenGreen.num, WrittenBlue.num>>

\* The value of the two hex digits of color c at positions p and p + 1.
Byte(c, p) == HexVal(c[p]) * 16 + HexVal(c[p + 1])

\* C15: the \fs directive holds round(size_px * 72/96) * 2, an even
\* integer (24 for 16 px), and the color table entry holds the red, green
\* and blue bytes of the hex color (255, 0, 0 for #ff0000).
C15_SizeInHalfPointsAndColorBytes ==
  enc.kind = "written"
    => LET size == enc.meta.fontSize
           c == enc.meta.fontColor
       IN /\ WrittenFs.word = <<"f", "s">> /\ WrittenFs.hasNum
          /\ WrittenFs.num % 2 = 0
          /\ WrittenFs.num = 2 * ((6 * size + 4) \div 8)
          /\ size = 16 => WrittenFs.num = 24
          /\ <<WrittenRed.word, WrittenGreen.word, WrittenBlue.word>>
               = <<<<"r", "e", "d">>, <<"g", "r", "e", "e", "n">>, <<"b", "l", "u", "e">>>>
          /\ c \in WellFormedColors
               => WrittenChannels = <<Byte(c, 2), Byte(c, 4), Byte(c, 6)>>
          /\ c = <<"#", "f", "f", "0", "0", "0", "0">> => WrittenChannels = <<255, 0, 0>>

\* A size whose point value ends in .5 was rounded up, with the color of
\* the application's default style.
C15_Witness ==
  /\ enc.kind = "written"
  /\ enc.meta.fontSize = 14 /\ WrittenFs.num = 22
  /\ enc.meta.fontColor = <<"#", "0", "f", "1", "7", "2", "a">> /\ WrittenChannels = <<15, 23, 42>>

\* C16: for a font color that is not '#' and six hex digits the encoder
\* writes zero for the red, the green and the blue channel.
C16_MalformedColorIsBlack ==
  (enc.kind = "written" /\ enc.meta.fontColor \in MalformedColors)
    => WrittenChannels = <<0, 0, 0>>

\* C17: when an open or a saveAs comes back canceled, empty or failed, no
\* document is added, no buffer or history changes, and the filePath, name
\* and isDirty flag of every document and the recovery records stay as
\* they were.
C17_DeclinedOpenSaveAsChangeNothing ==
  [][(lastOp'.op \in {"openFile", "saveAs"}
        /\ lastOp'.kind \in {"none", "canceled", "failed"})
       => UNCHANGED <<docs, activeId, nextId, isDirty, content, undoStack,
                      redoStack, stateTimeout, timers, filePath, name,
                      recovery, recent>>]_vars

\* A saveAs of an edited document with a recovery record was canceled.
C17_Witness ==
  /\ lastOp.op = "saveAs" /\ lastOp.kind = "canceled"
  /\ isDirty[lastOp.doc] /\ lastOp.doc \in recovery
  /\ filePath[lastOp.doc] = NoPath /\ name[lastOp.doc] = Untitled

\* C18: an undo with a non-empty undo stack pushes a snapshot of the
\* current content onto the redo stack, pops the most recent undo snapshot
\* and sets the content to that snapshot's state, all other entries staying
\* in place and in order; redo does the same with the stacks exchanged.
C18_UndoRedoTransferOneSnapshot ==
  [][LET d == lastOp'.doc
     IN /\ (lastOp'.op = "undo" /\ undoStack[d] # <<>>)
             => /\ redoStack'[d] = Append(redoStack[d], Memento(content[d]))
                /\ undoStack'[d] = SubSeq(undoStack[d], 1, Len(undoStack[d]) - 1)
                /\ content'[d] = getState(Last(undoStack[d]))
        /\ (lastOp'.op = "redo" /\ redoStack[d] # <<>>)
             => /\ undoStack'[d] = Append(undoStack[d], Memento(content[d]))
                /\ redoStack'[d] = SubSeq(redoStack[d], 1, Len(redoStack[d]) - 1)
                /\ content'[d] = getState(Last(redoStack[d]))]_vars

\* A second undo in a row: the redo stack kept its entry and got the
\* content the undo replaced on top.
C18_Witness ==
  /\ lastOp.op = "undo" /\ undoMark.doc = lastOp.doc /\ undoMark.did
  /\ Len(redoStack[lastOp.doc]) >= 2
  /\ getState(Last(redoStack[lastOp.doc])) = lastOp.old

\* C19: the firing of a pending debounce timer pushes exactly one snapshot
\* onto the undo stack, empties the redo stack and leaves the buffer
\* content unchanged, also when an undo ran inside the quiescence window,
\* whose redoable state the firing removes.
C19_FiringPushesOneClearsRedo ==
  [][lastOp'.op = "fire"
       => LET d == lastOp'.doc
          IN /\ Len(undoStack'[d]) = Len(undoStack[d]) + 1
             /\ SubSeq(undoStack'[d], 1, Len(undoStack[d])) = undoStack[d]
             /\ redoStack'[d] = <<>>
             /\ content' = content]_vars

\* A timer fired after an undo inside its window; what the undo had put
\* on the redo stack is gone.
C19_Witness ==
  /\ lastOp.op = "fire"
  /\ undoMark.doc = lastOp.doc /\ undoMark.did /\ undoMark.fired
  /\ redoStack[lastOp.doc] = <<>>
  /\ Len(undoStack[lastOp.doc]) >= 1

\* The marker a control word turns off: parameter 0 on b, i, ul or strike,
\* or ulnone; the empty string for every other control word.
TurnedOff(m) ==
  IF m.word = <<"u", "l", "n", "o", "n", "e">> THEN <<"_", "_">>
  ELSE IF ~(m.hasNum /\ m.num = 0) THEN <<>>
  ELSE CASE m.word = <<"b">> -> <<"*", "*">>
         [] m.word = <<"i">> -> <<"*">>
         [] m.word = <<"u", "l">> -> <<"_", "_">>
         [] m.word = <<"s", "t", "r", "i", "k", "e">> -> <<"~", "~">>
         [] OTHER -> <<>>

\* The strings of a sequence, one after the other.
Concat(seqs) ==
  LET F[k \in 0..Len(seqs)] == IF k = 0 THEN <<>> ELSE F[k - 1] \o seqs[k]
  IN F[Len(seqs)]

\* C20: a turn-off control word for bold, italic, underline or strike
\* whose marker is open on the stack with k >= 0 markers above it removes
\* exactly that entry, writes its closing form and then the k markers that
\* were above it, in order; the stack afterwards is the old stack without
\* the closed marker.
C20_PopByValueRemovesTheMarker ==
  [][LET m == ControlWord(dec.src, dec.pos)
         marker == TurnedOff(m)
         stack == dec.stack
     IN (/\ Scanning /\ Ch = "\\" /\ ~EscapedNext /\ m.matched
         /\ marker # <<>>
         /\ \E i \in 1..Len(stack) : stack[i] = marker)
          => LET i == CHOOSE i \in 1..Len(stack) :
                        /\ stack[i] = marker
                        /\ \A j \in (i + 1)..Len(stack) : stack[j] # marker
                 above == SubSeq(stack, i + 1, Len(stack))
             IN /\ dec'.stack = SubSeq(stack, 1, i - 1) \o above
                /\ dec'.out = dec.out \o marker \o Concat(above)]_vars

\* The closing forms: one per kind of marker or tag.
ClosingForms ==
  {<<"*", "*">>, <<"*">>, <<"_", "_">>, <<"~", "~">>, <<"[", "/", "s", "i", "z", "e", "]">>, <<"[", "/", "c", "o", "l", "o", "r", "]">>}

\* How many of the first n written forms open (close) a marker closed by c.
Written(log, n, open, c) ==
  Cardinality({k \in 1..n :
                 /\ log[k].open = open
                 /\ c = (IF open THEN ClosingOf(log[k].form) ELSE log[k].form)})

\* Every opening form has one later closing form of its own.
Balanced(log) ==
  \A c \in ClosingForms :
    /\ Written(log, Len(log), TRUE, c) = Written(log, Len(log), FALSE, c)
    /\ \A n \in 1..Len(log) : Written(log, n, FALSE, c) <= Written(log, n, TRUE, c)

\* C21: for every input the decoder returns with an empty marker stack and
\* a balanced output: each opening marker or tag it wrote has exactly one
\* later closing form, a marker left open being closed at the end of input.
C21_DecoderEndsBalanced ==
  dec.phase = "done" => (dec.stack = <<>> /\ Balanced(dec.log))

\* The closing forms of the markers of a stack, topmost first.
ClosingsOf(stack) ==
  Concat([k \in 1..Len(stack) |-> ClosingOf(stack[Len(stack) + 1 - k])])

\* C22: at an unescaped '}' the decoder pops every entry of the marker
\* stack, appending the closing form of each, most recently opened first,
\* and sets bold, italic, underline and strike to off and the current color
\* and size to null; at an unescaped '{' neither output nor state changes.
C22_GroupEndClosesAll ==
  [][/\ (Scanning /\ Ch = "}")
          => /\ dec'.stack = <<>>
             /\ dec'.out = dec.out \o ClosingsOf(dec.stack)
             /\ ~dec'.bold /\ ~dec'.italic /\ ~dec'.underline /\ ~dec'.strike
             /\ dec'.curColor = NullColor /\ dec'.curSizePx = NullSize
     /\ (Scanning /\ Ch = "{")
          => dec' = [dec EXCEPT !.pos = dec.pos + 1]]_vars

\* A '}' was read with all four markers, a size tag and a color tag open.
C22_Witness ==
  /\ dec.phase = "scan" /\ dec.rtf = AllOpenAtGroupEnd
  /\ dec.pos > 1 /\ dec.src[dec.pos - 1] = "}"
  /\ dec.out = <<"*", "*">>
               \o <<"*", "_", "_", "~", "~", "[", "s", "i", "z", "e", "=", "1", "9", "]", "[", "c", "o", "l", "o", "r", "=", "#", "0", "0", "0", "0", "0", "0", "]", "x">> \o <<"[", "/", "c", "o", "l", "o", "r", "]", "[", "/", "s", "i", "z", "e", "]", "~", "~", "_", "_", "*", "*", "*">>
  /\ dec.stack = <<>> /\ ~dec.bold /\ dec.curSizePx = NullSize

\* The control words of the four attributes, with toggle and marker.
ToggleWords ==
  {[word |-> <<"b">>, field |-> "bold", marker |-> <<"*", "*">>],
   [word |-> <<"i">>, field |-> "italic", marker |-> <<"*">>],
   [word |-> <<"u", "l">>, field |-> "underline", marker |-> <<"_", "_">>],
   [word |-> <<"u", "l", "n", "o", "n", "e">>, field |-> "underline", marker |-> <<"_", "_">>],
   [word |-> <<"s", "t", "r", "i", "k", "e">>, field |-> "strike", marker |-> <<"~", "~">>]}

\* The control word turns its attribute on: b, i, ul or strike with no
\* parameter or one other than 0.
TurnsOn(m) == m.word # <<"u", "l", "n", "o", "n", "e">> /\ ~(m.hasNum /\ m.num = 0)

\* C23: a turn-on control word for bold, italic, underline or strike while
\* the attribute is on, and a turn-off control word (parameter 0, or
\* ulnone) while it is off, change neither the output, nor the marker
\* stack, nor any toggle; a turn-on while off pushes and writes the marker
\* once.
C23_RedundantTogglesAreNoOps ==
  [][LET m == ControlWord(dec.src, dec.pos)
     IN (Scanning /\ Ch = "\\" /\ ~EscapedNext /\ m.matched)
          => \A t \in ToggleWords :
               m.word = t.word
                 => /\ (TurnsOn(m) <=> dec[t.field])
                         => dec' = [dec EXCEPT !.pos = m.next]
                    /\ (TurnsOn(m) /\ ~dec[t.field])
                         => dec' = [dec EXCEPT !.pos = m.next,
                                               !.out = @ \o t.marker,
                                               !.mask = @ \o [k \in 1..Len(t.marker) |-> TRUE],
                                               !.log = Append(@, [open |-> TRUE, form |-> t.marker]),
                                               !.stack = Append(@, t.marker),
                                               ![t.field] = TRUE]]_vars

\* Bold, underline and strike were turned on twice and underline and
\* italic turned off while off: each marker was written once.
C23_Witness ==
  /\ dec.phase = "scan" /\ dec.rtf = RedundantToggles
  /\ dec.pos = Len(dec.src) + 1
  /\ dec.out = <<"*", "*", "a", "b", "_", "_", "~", "~", "c">>
  /\ dec.stack = <<<<"*", "*">>, <<"_", "_">>, <<"~", "~">>>>
  /\ dec.bold /\ ~dec.italic /\ dec.underline /\ dec.strike

\* How many entries of the marker stack begin with the given tag opening.
TagsOn(stack, opening) ==
  Cardinality({k \in 1..Len(stack) : StartsWith(stack[k], opening)})

\* max(8, round((h / 2) * 96 / 72)) for an integer h (round half up).
HalfPointsToPx(h) ==
  LET twice == 4 * h + 3
      rounded == IF twice >= 0 THEN twice \div 6 ELSE 0 - ((5 - twice) \div 6)
  IN Max(8, rounded)

\* C24: for a font-size control word with half-point parameter h (0 when
\* absent) the decoder computes px = max(8, round((h/2) * 96/72)); when px
\* is the tracked size nothing is written, otherwise the previous size tag,
\* if any, is closed with [/size] and a new [size=px] tag is written and
\* pushed; the marker stack never holds more than one size tag.
C24_FontSizeReplacesTheSizeTag ==
  /\ [][LET m == ControlWord(dec.src, dec.pos)
            px == HalfPointsToPx(IF m.hasNum THEN m.num ELSE 0)
            closed == IF dec.curSizePx = NullSize THEN <<>> ELSE <<"[", "/", "s", "i", "z", "e", "]">>
        IN (Scanning /\ Ch = "\\" /\ ~EscapedNext /\ m.matched /\ m.word = <<"f", "s">>)
             => IF px = dec.curSizePx
                THEN dec' = [dec EXCEPT !.pos = m.next]
                ELSE /\ dec'.curSizePx = px
                     /\ dec'.stack # <<>> /\ Last(dec'.stack) = SizeMarker(px)
                     /\ StartsWith(dec'.out, dec.out \o closed)
                     /\ Len(dec'.out) >= Len(dec.out \o closed \o SizeMarker(px))
                     /\ SliceFrom(dec'.out, Len(dec'.out) - Len(SizeMarker(px))) = SizeMarker(px)]_vars
  /\ [](dec.phase = "scan" => TagsOn(dec.stack, <<"[", "s", "i", "z", "e", "=">>) <= 1)

\* n clamped into [0, top]
Clamp(n, top) == IF n < 0 THEN 0 ELSE IF n > top THEN top ELSE n

\* C25: for a color-index control word with any integer parameter n
\* (negative, beyond the table, absent) the decoder resolves a color by
\* clamping n into [0, table.length - 1], #000000 when the table has no
\* entry of its own, and never fails; only when the resolved color differs
\* from the tracked color does it write a new [color=#RRGGBB] tag, after
\* closing the previous color tag, if any, with [/color].
C25_ColorIndexIsClamped ==
  [][LET m == ControlWord(dec.src, dec.pos)
         n == IF m.hasNum THEN m.num ELSE 0
         hex == dec.colors[Clamp(n, Len(dec.colors) - 1) + 1]
         closed == IF dec.curColor = NullColor THEN <<>> ELSE <<"[", "/", "c", "o", "l", "o", "r", "]">>
     IN (Scanning /\ Ch = "\\" /\ ~EscapedNext /\ m.matched /\ m.word = <<"c", "f">>)
          => /\ Len(dec.colors) = 1 => hex = <<"#", "0", "0", "0", "0", "0", "0">>
             /\ dec'.phase = "scan" /\ dec'.pos = m.next
             /\ IF hex = dec.curColor
                THEN dec' = [dec EXCEPT !.pos = m.next]
                ELSE /\ dec'.curColor = hex
                     /\ dec'.stack # <<>> /\ Last(dec'.stack) = ColorMarker(hex)
                     /\ dec'.out = dec.out \o closed \o ColorMarker(hex)]_vars

\* The body of the first color-table group of rtf: what stands between
\* '{\colortbl;' and the next '}' (no body when there is no such group).
ColorTableBody(rtf) ==
  LET p == IndexOf(rtf, ColorTblOpen)
      from == p + Len(ColorTblOpen)
      to == RunEnd(rtf, from, NotCloseBrace)
  IN IF p > 0 /\ to <= Len(rtf) THEN SubSeq(rtf, from, to - 1) ELSE <<>>

\* The semicolon-delimited entries of a color-table body, in order; blank
\* text after the last semicolon is no entry.
EntriesOf(body) ==
  LET parts == SplitSemi(body)
  IN IF NonBlank(Last(parts)) THEN parts ELSE SubSeq(parts, 1, Len(parts) - 1)

\* C26: the color table has #000000 at index 0 and at index k >= 1 the
\* color of the k-th semicolon-delimited entry of the color-table group,
\* red, green and blue taken from the entry, 0 when missing and at most
\* 255; an entry with no components holds its own index as black. Stated
\* of the table the decoder has used when it returns.
C26_ColorTableFollowsEntries ==
  dec.phase = "done"
    => LET entries == EntriesOf(ColorTableBody(dec.rtf))
       IN /\ Len(dec.colors) = Len(entries) + 1
          /\ dec.colors[1] = <<"#", "0", "0", "0", "0", "0", "0">>
          /\ \A k \in 1..Len(entries) : dec.colors[k + 1] = EntryColor(entries[k])

\* The control words the decoder acts on.
KnownWords == {<<"p", "a", "r">>, <<"t", "a", "b">>, <<"b">>, <<"i">>, <<"u", "l">>, <<"u", "l", "n", "o", "n", "e">>, <<"s", "t", "r", "i", "k", "e">>, <<"f", "s">>, <<"c", "f">>}

\* The position of the '}' that ends the color-table group of src.
ColorTableEnd(src) ==
  RunEnd(src, IndexOf(src, ColorTblOpen) + Len(ColorTblOpen), NotCloseBrace)

\* C27: a control word other than par, tab, b, i, ul, ulnone, strike, fs
\* and cf leaves the output, the toggles, the tracked color and size and
\* the marker stack unchanged while the scan moves past the word, its
\* numeric parameter and one trailing whitespace; in particular, when the
\* scan of an encoder-written document has passed the font-table and
\* color-table groups of the header, nothing has been written to the output.
C27_OtherWordsAreSkipped ==
  /\ [][LET m == ControlWord(dec.src, dec.pos)
        IN (Scanning /\ Ch = "\\" /\ ~EscapedNext /\ m.matched
            /\ m.word \notin KnownWords)
             => /\ dec' = [dec EXCEPT !.pos = m.next]
                /\ m.next > dec.pos + Len(m.word)
                /\ dec.src[m.next - 1] \in Letters \cup Digits \cup Spaces]_vars
  /\ []((enc.kind = "encoded" /\ dec.phase = "scan"
         /\ dec.pos = ColorTableEnd(dec.src) + 1)
          => dec.out = <<>>)

\* The number of backslashes that stand in a row right before position k.
BackslashesBefore(s, k) ==
  LET others == {j \in 1..(k - 1) : s[j] # "\\"}
      last == IF others = {} THEN 0 ELSE CHOOSE j \in others : \A i \in others : i <= j
  IN k - 1 - last

\* The positions of the braces of s that no backslash escapes.
UnescapedBraces(s) ==
  {k \in 1..Len(s) : s[k] \in {"{", "}"} /\ BackslashesBefore(s, k) % 2 = 0}

\* The number of groups open after the first k characters of s, braces
\* being the positions of its unescaped braces.
GroupDepth(s, braces, k) ==
  Cardinality({j \in braces : j <= k /\ s[j] = "{"})
    - Cardinality({j \in braces : j <= k /\ s[j] = "}"})

\* The first position of the escaped text in a document the encoder wrote.
TextFrom(rtf) == IndexOf(rtf, <<"\\", "c", "f", "1", " ">>) + Len(<<"\\", "c", "f", "1", " ">>)

\* The encoded text holds no unescaped brace, no CRLF, and a \par before
\* each of its line feeds; the outer group closes at the final '}' only.
BraceSafe(rtf) ==
  LET braces == UnescapedBraces(rtf)
  IN /\ \A k \in TextFrom(rtf)..(Len(rtf) - 1) :
          /\ k \notin braces
          /\ ~(rtf[k] = "\r" /\ rtf[k + 1] = "\n")
          /\ (rtf[k] = "\n" /\ k < Len(rtf) - 1) => MatchAt(rtf, k - 4, <<"\\", "p", "a", "r">>)
     /\ \A k \in 1..(Len(rtf) - 1) : GroupDepth(rtf, braces, k) >= 1
     /\ GroupDepth(rtf, braces, Len(rtf)) = 0

\* C28 as stated: the encoder's escaping of the text is injective and
\* brace-safe: no two texts have the same encoding, every backslash, '{'
\* and '}' of the text is escaped and every newline, LF or CRLF, becomes a
\* \par control word, so that the outer group closes only at the final '}'.
C28_EscapingIsInjective ==
  enc.kind = "written"
    => /\ \A t \in EncoderTexts : toRtf(t, enc.meta) = enc.rtf => t = enc.plain
       /\ BraceSafe(enc.rtf)

\* C28, amended: the escaping is brace-safe, and injective up to the line
\* end convention: two texts have the same encoding exactly when they are
\* equal once CRLF is read as LF.
C28_EscapingIsInjectiveUpToLineEnds ==
  enc.kind = "written"
    => /\ \A t \in EncoderTexts :
            toRtf(t, enc.meta) = enc.rtf
              <=> NormalizeNewlines(t) = NormalizeNewlines(enc.plain)
       /\ BraceSafe(enc.rtf)

\* A text with both braces, a backslash and a CRLF was encoded.
C28_Witness ==
  /\ enc.kind = "written" /\ enc.plain = <<"a", "}", "\r", "\n", "{", "\\">>
  /\ SubSeq(enc.rtf, TextFrom(enc.rtf), Len(enc.rtf)) = <<"a", "\\", "}", "\\", "p", "a", "r", "\n", "\\", "{", "\\", "\\", "\n", "}">>

\* C29: a document that was saved successfully and has not been changed
\* since has no recovery record: no recovery.write for its id follows the
\* recovery.clear of the save.
C29_SavedDocumentStaysCleared ==
  \A d \in DocIds : (Open(d) /\ d \in savedIds /\ ~isDirty[d]) => d \notin recovery

\* The positions of the marker stack that hold marker.
Holding(stack, marker) == {k \in 1..Len(stack) : stack[k] = marker}

\* C30: throughout the scan the toggles agree with the marker stack: bold
\* (italic, underline, strike) is true exactly when '**' ('*', '__', '~~')
\* is on the stack, each such marker is there at most once, and the tracked
\* size (color) is non-null exactly when a [size=...] ([color=...]) entry
\* is on the stack, which is then the entry of the tracked value.
C30_TogglesAgreeWithStack ==
  dec.phase = "scan"
    => /\ \A t \in ToggleWords :
            /\ dec[t.field] <=> Holding(dec.stack, t.marker) # {}
            /\ Cardinality(Holding(dec.stack, t.marker)) <= 1
       /\ dec.curSizePx # NullSize <=> TagsOn(dec.stack, <<"[", "s", "i", "z", "e", "=">>) > 0
       /\ dec.curSizePx # NullSize
            => \A k \in 1..Len(dec.stack) :
                 StartsWith(dec.stack[k], <<"[", "s", "i", "z", "e", "=">>) => dec.stack[k] = SizeMarker(dec.curSizePx)
       /\ dec.curColor # NullColor <=> TagsOn(dec.stack, <<"[", "c", "o", "l", "o", "r", "=">>) > 0
       /\ dec.curColor # NullColor
            => \A k \in 1..Len(dec.stack) :
                 StartsWith(dec.stack[k], <<"[", "c", "o", "l", "o", "r", "=">>) => dec.stack[k] = ColorMarker(dec.curColor)

\* The number of snapshots a document's history holds.
HistorySize(d) == Len(undoStack[d]) + Len(redoStack[d])

\* The snapshots of s that are still in t are the ones t has at the same
\* places.
SameWhereBoth(s, t) ==
  \A k \in 1..Len(s) : k <= Len(t) => t[k] = s[k]

\* C31: undo and redo neither create nor lose history: an undo or redo
\* that acts leaves len(undoStack) + len(redoStack) as it was; only the
\* firing of a debounce timer makes the history larger or drops redo
\* entries; and a snapshot on a stack keeps the state it captured, whatever
\* is done to the buffer afterwards.
C31_UndoRedoConserveHistory ==
  [][\A d \in DocIds :
       LET fired == lastOp'.op = "fire" /\ lastOp'.doc = d
           redone == lastOp'.op = "redo" /\ lastOp'.doc = d
       IN /\ (lastOp'.op \in {"undo", "redo"} /\ lastOp'.doc = d)
               => HistorySize(d)' = HistorySize(d)
          /\ ~fired => HistorySize(d)' = HistorySize(d)
          /\ Len(undoStack'[d]) > Len(undoStack[d]) => (fired \/ redone)
          /\ Len(redoStack'[d]) < Len(redoStack[d]) => (fired \/ redone)
          /\ SameWhereBoth(undoStack[d], undoStack'[d])
          /\ SameWhereBoth(redoStack[d], redoStack'[d])
          /\ lastOp'.op = "edit"
               => undoStack'[d] = undoStack[d] /\ redoStack'[d] = redoStack[d]]_vars

\* An undo acted on a history of two snapshots, and one went from the undo
\* stack to the redo stack.
C31_Witness ==
  /\ lastOp.op = "undo" /\ undoMark.doc = lastOp.doc /\ undoMark.did
  /\ Len(undoStack[lastOp.doc]) = 1 /\ Len(redoStack[lastOp.doc]) = 1
  /\ content[lastOp.doc] # lastOp.old

\* C32: the open-documents list is never empty and activeId is the id of a
\* document in it, whatever new-tab, open, close and recovery-load operations
\* have run; closing the last remaining document leaves exactly one fresh
\* document, named Untitled, with empty content and empty history.
C32_ActiveIdIsOpen ==
  /\ [](Len(docs) > 0 /\ Open(activeId))
  /\ [][(lastOp'.op = "closeTab" /\ Len(docs) = 1 /\ docs[1] = lastOp'.doc)
          => /\ Len(docs') = 1
             /\ docs'[1] # docs[1]
             /\ activeId' = docs'[1]
             /\ name'[docs'[1]] = Untitled
             /\ filePath'[docs'[1]] = NoPath
             /\ ~isDirty'[docs'[1]]
             /\ content'[docs'[1]] = <<>>
             /\ undoStack'[docs'[1]] = <<>>
             /\ redoStack'[docs'[1]] = <<>>]_vars

\* The parts of C32 that do not depend on activeId.
C32_ListNeverEmpty == Len(docs) > 0

C32_CloseLastGivesFresh ==
  [][(lastOp'.op = "closeTab" /\ Len(docs) = 1 /\ docs[1] = lastOp'.doc)
       => /\ Len(docs') = 1
          /\ docs'[1] # docs[1]
          /\ activeId' = docs'[1]
          /\ name'[docs'[1]] = Untitled
          /\ content'[docs'[1]] = <<>>
          /\ undoStack'[docs'[1]] = <<>>
          /\ redoStack'[docs'[1]] = <<>>]_vars

\* Without a recovery load activeId stays the id of an open document.
C32_ActiveIdIsOpenUnlessRestored == Open(activeId)

\* Whether p stands before q in the list.
Before(items, p, q) ==
  \E i, j \in 1..Len(items) : i < j /\ items[i] = p /\ items[j] = q

Listed(items) == {items[k] : k \in 1..Len(items)}

\* C33: whatever recent:push and recent:clear operations have run, the
\* recent list holds no path twice and at most ten paths, and after a push
\* the pushed path is first; a push of a path already listed moves it to
\* the front, keeps every other path and keeps their relative order.
C33_RecentListIsBoundedAndOrdered ==
  /\ [](/\ \A i, j \in 1..Len(recent) : recent[i] = recent[j] => i = j
        /\ Len(recent) <= 10
        /\ lastOp.op = "recentPush" => Len(recent) > 0 /\ recent[1] = lastOp.new
        /\ lastOp.op = "recentClear" => recent = <<>>)
  /\ [][lastOp'.op = "recentPush"
          => LET fp == lastOp'.new
                 others == Listed(recent) \ {fp}
             IN /\ \A p, q \in others \cap Listed(recent') :
                     Before(recent', p, q) <=> Before(recent, p, q)
                /\ fp \in Listed(recent)
                     => /\ Listed(recent') = Listed(recent)
                        /\ Len(recent') = Len(recent)]_vars

\* A full list of ten, of which a path that was not first has been pushed
\* again.
C33_Witness ==
  /\ lastOp.op = "recentPush"
  /\ lastOp.kind = "moved"
  /\ lastOp.base = 10
  /\ Len(recent) = 10
  /\ recent[1] = lastOp.new

\* A full list of ten onto which a path not listed has been pushed.
C33_FullListDropsLast ==
  /\ lastOp.op = "recentPush"
  /\ lastOp.kind = "new"
  /\ lastOp.base = 10
  /\ Len(recent) = 10

====
